---- MODULE Spec2Model ----
(***************************************************************************)
(* State-machine model of the request/response core of                     *)
(* mcp-server-firebird (modular implementation under src/src/):            *)
(*   MCPServer.run / handle_request / handle_* (src/src/mcp/server.py),    *)
(*   FirebirdMCPServer (src/src/firebird/server.py),                       *)
(*   DefaultPromptManager (src/src/prompts/manager.py),                    *)
(*   PromptGenerator (src/src/prompts/generator.py),                       *)
(*   I18n.get (src/src/core/i18n.py).                                      *)
(*                                                                         *)
(* Standard output is the sequence of response envelopes written by        *)
(* send_response / send_error; standard error is observed per input line   *)
(* (log lines written by log(), and "Missing translation key" warnings     *)
(* written by I18n.get).  Writes to both channels are taken to succeed.    *)
(***************************************************************************)
EXTENDS Integers, Sequences, FiniteSets, TLC

\* Number of input lines on standard input before end-of-input.
MaxLines == 2

\* Direct calls of FirebirdMCPServer and SQLPatternAnalyzer methods.
MaxCalls == 3

\* JSON null / Python None / an absent dictionary entry read through .get().
Null == "<null>"

\* JSON-RPC error codes used by handle_request.
METHOD_NOT_FOUND == -32601

INTERNAL_ERROR == -32603

VARIABLES
    pc,            \* position of run(): "idle", "decoding", "handling", "stopped"
    remaining,     \* lines still to come on standard input
    nread,         \* lines read so far; the n-th line is line number n
    line,          \* the kind of the line being processed (a local of run())
    decoded,       \* the value json.loads returned for it
    stdout,        \* response envelopes written to standard output, in order
    last,          \* what processing the current line did (payloads, stderr, calls)
    missing_keys,  \* I18n.missing_keys
    config,        \* DefaultPromptManager.config
    env,           \* process-wide constants fixed at start-up
    stopCause,     \* why run() left its loop
    shutdownLogs,  \* number of 'shutting_down' log lines written
    heap,          \* the list objects SQLPatternAnalyzer has created, by address
    returned,      \* the dictionaries analyze() has returned to its callers
    outcome,       \* what the latest direct call of a FirebirdMCPServer method did
    listed         \* what the direct calls of handle_tools_list returned, in order

vars == <<pc, remaining, nread, line, decoded, stdout, last, missing_keys,
          config, env, stopCause, shutdownLogs, heap, returned, outcome,
          listed>>

\* The state of the objects a caller other than run() works with.
directVars == <<heap, returned, outcome, listed>>

\* The state of run().
runVars == <<pc, nread, line, decoded, stdout, last, missing_keys, config, env,
             stopCause, shutdownLogs>>

-----------------------------------------------------------------------------
(* Input alphabet: what one line of standard input can decode to.          *)

\* The id of a message without an "id" member (request.get("id") is None).
NoId == 0

Methods ==
    {"initialize", "tools/list", "tools/call", "resources/list",
     "prompts/list", "prompts/get", "notifications/initialized"}

\* Method values that handle_request does not recognise; Null is a message
\* without a "method" member.
UnknownMethods == {"bogus/method", Null}

Tools == {"test_connection", "execute_query", "list_tables", "server_status"}

ToolNames == Tools \cup {"nope", Null}

PromptNames == {"firebird_expert", "nope", Null}

\* SQL texts, as sequences of characters.
SqlSelect == <<"S", "E", "L", "E", "C", "T", " ", "1">>

SqlSelectLower == <<" ", "s", "e", "l", "e", "c", "t", " ", "1">>

SqlDelete == <<"D", "E", "L", "E", "T", "E", " ", "T">>

SqlTexts == {SqlSelect, SqlSelectLower, SqlDelete}

\* The "sql" argument: absent/null/empty (falsy), a string, or a truthy
\* value that is not a string (a number, a list).
NoSql == [kind |-> "falsy", text |-> <<>>]

NonStringSql == [kind |-> "nonstring", text |-> <<>>]

\* The "expert_operation" argument: absent, empty, or one of the enum values.
OpAbsent == "<absent>"

ExpertOps == {OpAbsent, "", "select"}

\* The "arguments" member of params: absent, not a JSON object (null, list,
\* string), or an object.
NoArguments ==
    [shape |-> "absent", sql |-> NoSql, disable |-> FALSE, op |-> OpAbsent]

NonDictArguments ==
    [shape |-> "nondict", sql |-> NoSql, disable |-> FALSE, op |-> OpAbsent]

DictArguments ==
    [shape : {"dict"}, sql : {[kind |-> "string", text |-> t] : t \in SqlTexts},
     disable : BOOLEAN, op : ExpertOps]
    \cup [shape : {"dict"}, sql : {NoSql, NonStringSql}, disable : {FALSE},
          op : {OpAbsent}]

\* The "params" member of a message.
NoParams == [shape |-> "absent", name |-> Null, arguments |-> NoArguments]

NonDictParams == [shape |-> "nondict", name |-> Null, arguments |-> NoArguments]

ToolCallParams ==
    [shape : {"dict"}, name : {"execute_query"}, arguments : DictArguments]
    \cup [shape : {"dict"}, name : ToolNames,
          arguments : {NoArguments, NonDictArguments,
                       [NoArguments EXCEPT !.shape = "dict", !.disable = TRUE]}]

PromptGetParams ==
    [shape : {"dict"}, name : PromptNames,
     arguments : {NoArguments, NonDictArguments}]

ParamsOf(method) ==
    CASE method = "tools/call" -> ToolCallParams \cup {NoParams, NonDictParams}
      [] method = "prompts/get" -> PromptGetParams \cup {NoParams, NonDictParams}
      [] OTHER -> {NoParams, NonDictParams}

\* The params of the messages without an id that are drawn as input.
NotificationParamsOf(method) ==
    CASE method = "tools/call" ->
            {NoParams,
             [shape |-> "dict", name |-> "test_connection", arguments |-> NoArguments],
             [shape |-> "dict", name |-> "nope", arguments |-> NoArguments]}
      [] method = "prompts/get" ->
            {NoParams,
             [shape |-> "dict", name |-> "firebird_expert", arguments |-> NoArguments]}
      [] OTHER -> {NoParams}

\* A decoded JSON object: a request (with an id) or a notification (without).
Requests ==
    UNION {[shape : {"object"}, method : {m}, hasId : {TRUE}, params : ParamsOf(m)]
           \cup [shape : {"object"}, method : {m}, hasId : {FALSE},
                 params : NotificationParamsOf(m)] :
             m \in Methods \cup UnknownMethods}

\* A decoded JSON value that is not an object (array, number, string, null).
NonObject ==
    [shape |-> "nonobject", method |-> Null, hasId |-> FALSE, params |-> NoParams]

NoRequest ==
    [shape |-> "none", method |-> Null, hasId |-> FALSE, params |-> NoParams]

\* One line of standard input: blank (only whitespace), text that is not
\* JSON, or the encoding of some JSON value.
LineKinds == {"blank", "malformed", "json"}

NoLine == "none"

-----------------------------------------------------------------------------
(* String resources (I18n).                                                *)

\* Key paths looked up by run() and handle_request().
RunKeys ==
    {"server_info.waiting", "server_info.invalid_json",
     "server_info.error_processing", "server_info.interrupted",
     "server_info.server_error", "server_info.shutting_down",
     "server_info.error_handling", "errors.notification_received",
     "errors.method_not_found"}

\* Key paths looked up by the tools/list and tools/call handlers.
ToolKeys ==
    {"tools.test_connection.name", "tools.test_connection.description",
     "tools.execute_query.name", "tools.execute_query.description",
     "tools.execute_query.sql_description",
     "tools.execute_query.params_description",
     "tools.list_tables.name", "tools.list_tables.description",
     "tools.server_status.name", "tools.server_status.description",
     "tools.sql_required", "tools.unknown_tool", "tools.error_executing",
     "tools.query_results", "tools.database_tables",
     "tools.server_status_title", "connection.test_results"}

\* Key paths that only a language file provides.
FileOnlyKeys ==
    {"prompts.manager", "table_schema.error_generating",
     "prompt_templates.firebird_expert",
     "prompt_templates.firebird_performance",
     "prompt_templates.firebird_expert.available_tables",
     "prompt_templates.firebird_architecture",
     "operation_guidance", "complexity_levels",
     "query_optimizations", "focus_techniques",
     "architecture_topics", "version_features"}

\* Key paths the hard-coded strings provide to the prompt generators.
EnvironmentKeys ==
    {"environment.target_host", "environment.target_database",
     "environment.user", "environment.charset", "environment.info"}

AllKeys == RunKeys \cup ToolKeys \cup FileOnlyKeys \cup EnvironmentKeys

\* The strings of I18n._load_minimal_fallback.
MinimalKeys == RunKeys \cup ToolKeys \cup EnvironmentKeys

\* The key sets a start-up can end with: a complete language file, the
\* hard-coded minimal strings, or a language file that lacks one entry.
StringTables ==
    {AllKeys, MinimalKeys, AllKeys \ {"server_info.invalid_json"}}

\* The I18n instances of the process: MCPServer.i18n, and the ones
\* DefaultPromptManager and PromptGenerator create for themselves.
I18nInstances == {"mcp", "manager", "generator"}

\* I18n.get: the value is found when the key is in strings or in
\* fallback_strings; otherwise the key path itself is returned.
I18nHas(key) == key \in env.strings

\* I18n.get, for a set of keys looked up by one instance while one line is
\* processed: the "Missing translation key" warnings it prints (one per
\* missing key not yet in missing_keys) and the new missing_keys.
I18nMissing(keys) == {k \in keys : ~I18nHas(k)}

\* A lookup that warns about a missing key on every call, not only the first.
I18nWarnings_EveryCall(inst, keys) == I18nMissing(keys)

I18nWarnings(inst, keys) == I18nMissing(keys) \ missing_keys[inst]

-----------------------------------------------------------------------------
(* Python string operations on character sequences.                        *)

LowerLetters ==
    <<"a", "b", "c", "d", "e", "f", "g", "h", "i", "j", "k", "l", "m",
      "n", "o", "p", "q", "r", "s", "t", "u", "v", "w", "x", "y", "z">>

UpperLetters ==
    <<"A", "B", "C", "D", "E", "F", "G", "H", "I", "J", "K", "L", "M",
      "N", "O", "P", "Q", "R", "S", "T", "U", "V", "W", "X", "Y", "Z">>

Whitespace == {" ", "\t", "\n"}

UpperChar(c) ==
    IF \E i \in 1..Len(LowerLetters) : LowerLetters[i] = c
    THEN UpperLetters[CHOOSE i \in 1..Len(LowerLetters) : LowerLetters[i] = c]
    ELSE c

\* str.upper()
Upper(s) == [i \in 1..Len(s) |-> UpperChar(s[i])]

\* str.strip()
Strip(s) ==
    LET keep == {i \in 1..Len(s) : s[i] \notin Whitespace}
    IN  IF keep = {} THEN <<>>
        ELSE LET lo == CHOOSE i \in keep : \A j \in keep : i <= j
                 hi == CHOOSE i \in keep : \A j \in keep : j <= i
             IN  SubSeq(s, lo, hi)

\* str.startswith(prefix)
StartsWith(s, prefix) ==
    /\ Len(prefix) <= Len(s)
    /\ SubSeq(s, 1, Len(prefix)) = prefix

SELECT == <<"S", "E", "L", "E", "C", "T">>

LowerChar(c) ==
    IF \E i \in 1..Len(UpperLetters) : UpperLetters[i] = c
    THEN LowerLetters[CHOOSE i \in 1..Len(UpperLetters) : UpperLetters[i] = c]
    ELSE c

\* str.lower()
Lower(s) == [i \in 1..Len(s) |-> LowerChar(s[i])]

\* s[i:].startswith(w), i counted from 1
MatchAt(s, i, w) ==
    /\ i >= 1
    /\ i + Len(w) - 1 <= Len(s)
    /\ SubSeq(s, i, i + Len(w) - 1) = w

\* w in s
Contains(s, w) == \E i \in 1..(Len(s) + 1) : MatchAt(s, i, w)

-----------------------------------------------------------------------------
(* Database Client and FirebirdMCPServer.                                  *)

\* How one use of the Database Client ends: every call succeeds ("ok"), the
\* named call raises, or every call succeeds but a returned value has a type
\* the caller does not expect ("badvalue": a version that is not a string,
\* a column value json.dumps cannot encode).
DbOutcomes == {"ok", "connect", "execute", "fetch", "commit", "close", "badvalue"}

\* What a FirebirdMCPServer operation did to the Database Client.
NoDb == [connects |-> 0, opened |-> 0, closed |-> 0, commits |-> 0, executes |-> 0]

\* The entries of DB_CONFIG.
DB_CONFIG == {"host", "port", "database", "user", "password", "charset"}

\* The entries of DB_CONFIG that make up FirebirdMCPServer.dsn.
dsn == {"host", "port", "database"}

\* The shape of a tool result dictionary.  "annotated" tells whether it has
\* the "analysis" entry, "encodable" whether json.dumps accepts it, "echo"
\* which entries of DB_CONFIG it carries verbatim (none unless set).
ToolResult(ok, type, annotated, encodable) ==
    [ok |-> ok, type |-> type, annotated |-> annotated, encodable |-> encodable,
     echo |-> {}]

\* The result of the except branch of test_connection: "dsn" and
\* "config": DB_CONFIG, the whole dictionary.
ConnectionFailure(type) ==
    [ToolResult(FALSE, type, FALSE, TRUE) EXCEPT !.echo = dsn \cup DB_CONFIG]

\* The phrases test_connection looks for in the lower-cased failure text.
Phrase ==
    [ CouldNotBeDetermined |-> <<"c", "o", "u", "l", "d", " ", "n", "o",
          "t", " ", "b", "e", " ", "d", "e", "t", "e", "r", "m", "i", "n",
          "e", "d">>,
      Libtommath |-> <<"l", "i", "b", "t", "o", "m", "m", "a", "t", "h">>,
      Libtomcrypt |-> <<"l", "i", "b", "t", "o", "m", "c", "r", "y", "p",
          "t">>,
      NetworkError |-> <<"n", "e", "t", "w", "o", "r", "k", " ", "e", "r",
          "r", "o", "r">>,
      ConnectionRefused |-> <<"c", "o", "n", "n", "e", "c", "t", "i", "o",
          "n", " ", "r", "e", "f", "u", "s", "e", "d">>,
      Login |-> <<"l", "o", "g", "i", "n">>,
      Password |-> <<"p", "a", "s", "s", "w", "o", "r", "d">>,
      Authentication |-> <<"a", "u", "t", "h", "e", "n", "t", "i", "c",
          "a", "t", "i", "o", "n">>,
      Database |-> <<"d", "a", "t", "a", "b", "a", "s", "e">>,
      NotFound |-> <<"n", "o", "t", " ", "f", "o", "u", "n", "d">> ]

\* Failure texts (str(e)) of a connection attempt: texts that satisfy one
\* predicate, several, or none, in lower and in mixed case.
FailureText ==
    [ Undetermined |-> <<"l", "i", "b", "t", "o", "m", "m", "a", "t", "h",
          ".", "s", "o", ":", " ", "c", "o", "u", "l", "d", " ", "n", "o",
          "t", " ", "b", "e", " ", "d", "e", "t", "e", "r", "m", "i", "n",
          "e", "d">>,
      Dependency |-> <<"N", "e", "t", "w", "o", "r", "k", " ", "e", "r",
          "r", "o", "r", ":", " ", "l", "i", "b", "t", "o", "m", "c", "r",
          "y", "p", "t", " ", "m", "i", "s", "s", "i", "n", "g">>,
      Refused |-> <<"C", "o", "n", "n", "e", "c", "t", "i", "o", "n", " ",
          "r", "e", "f", "u", "s", "e", "d">>,
      NetworkLogin |-> <<"n", "e", "t", "w", "o", "r", "k", " ", "e", "r",
          "r", "o", "r", " ", "a", "t", " ", "l", "o", "g", "i", "n">>,
      Password |-> <<"Y", "o", "u", "r", " ", "u", "s", "e", "r", " ", "n",
          "a", "m", "e", " ", "a", "n", "d", " ", "P", "A", "S", "S", "W",
          "O", "R", "D", " ", "a", "r", "e", " ", "n", "o", "t", " ", "d",
          "e", "f", "i", "n", "e", "d">>,
      AuthDatabase |-> <<"a", "u", "t", "h", "e", "n", "t", "i", "c", "a",
          "t", "i", "o", "n", ":", " ", "d", "a", "t", "a", "b", "a", "s",
          "e", " ", "n", "o", "t", " ", "f", "o", "u", "n", "d">>,
      Database |-> <<"D", "a", "t", "a", "b", "a", "s", "e", " ", "f", "i",
          "l", "e", " ", "n", "o", "t", " ", "f", "o", "u", "n", "d">>,
      Offline |-> <<"d", "a", "t", "a", "b", "a", "s", "e", " ", "o", "f",
          "f", "l", "i", "n", "e">>,
      Other |-> <<"n", "o", " ", "a", "t", "t", "r", "i", "b", "u", "t",
          "e", " ", "'", "s", "t", "r", "i", "p", "'">>,
      Empty |-> <<>> ]

FailureTexts == {FailureText[k] : k \in DOMAIN FailureText}

\* The failure text of the one Database Client failure a request meets in
\* the protocol model.
DriverText == FailureText.Refused

\* A classification that tests for the credential phrases before the
\* network phrases.
classify_AuthenticationFirst(error_msg) ==
    LET text == Lower(error_msg)
    IN  IF Contains(text, Phrase.CouldNotBeDetermined) THEN "client_library_error"
        ELSE IF Contains(text, Phrase.Libtommath) \/ Contains(text, Phrase.Libtomcrypt)
        THEN "dependency_error"
        ELSE IF \/ Contains(text, Phrase.Login)
                \/ Contains(text, Phrase.Password)
                \/ Contains(text, Phrase.Authentication)
        THEN "authentication_error"
        ELSE IF Contains(text, Phrase.NetworkError) \/ Contains(text, Phrase.ConnectionRefused)
        THEN "network_error"
        ELSE IF Contains(text, Phrase.Database) /\ Contains(text, Phrase.NotFound)
        THEN "database_error"
        ELSE "unknown_error"

\* The if/elif chain of the except branch of test_connection: error_type.
classify(error_msg) ==
    LET text == Lower(error_msg)
    IN  IF Contains(text, Phrase.CouldNotBeDetermined) THEN "client_library_error"
        ELSE IF Contains(text, Phrase.Libtommath) \/ Contains(text, Phrase.Libtomcrypt)
        THEN "dependency_error"
        ELSE IF Contains(text, Phrase.NetworkError) \/ Contains(text, Phrase.ConnectionRefused)
        THEN "network_error"
        ELSE IF \/ Contains(text, Phrase.Login)
                \/ Contains(text, Phrase.Password)
                \/ Contains(text, Phrase.Authentication)
        THEN "authentication_error"
        ELSE IF Contains(text, Phrase.Database) /\ Contains(text, Phrase.NotFound)
        THEN "database_error"
        ELSE "unknown_error"

\* The text the branch of a category appends to error_msg, by the name of
\* its heading; "none" when nothing is appended.
remediation(error_type) ==
    CASE error_type = "client_library_error" -> "FIREBIRD CLIENT ISSUE"
      [] error_type = "dependency_error" -> "DEPENDENCY ISSUE"
      [] error_type = "network_error" -> "NETWORK ISSUE"
      [] error_type = "authentication_error" -> "AUTHENTICATION ISSUE"
      [] error_type = "database_error" -> "DATABASE ISSUE"
      [] OTHER -> "none"

\* The "error" entry of a result: a text and what was appended to it.
NoMessage == [text |-> <<>>, appended |-> "none"]

\* Preconditions that look for the native client library first.
precondition_ClientFirst(fdb_available, client_available) ==
    IF ~client_available THEN "client_library_error"
    ELSE IF ~fdb_available THEN "fdb_library_error"
    ELSE "passed"

\* The two early returns of test_connection: 'if not self.fdb_available',
\* then 'if not self.client_available'.
precondition(fdb_available, client_available) ==
    IF ~fdb_available THEN "fdb_library_error"
    ELSE IF ~client_available THEN "client_library_error"
    ELSE "passed"

\* FirebirdMCPServer.test_connection.  error_msg is the text of the
\* exception a failing call raises.
test_connection(d, error_msg) ==
    IF precondition(env.fdb_available, env.client_available) # "passed"
    THEN [result |-> ToolResult(FALSE,
                                precondition(env.fdb_available,
                                             env.client_available),
                                FALSE, TRUE),
          message |-> NoMessage, db |-> NoDb, logs |-> <<>>]
    ELSE IF d = "connect"
    THEN [result |-> ConnectionFailure(classify(error_msg)),
          message |-> [text |-> error_msg,
                       appended |-> remediation(classify(error_msg))],
          db |-> [NoDb EXCEPT !.connects = 1],
          logs |-> <<"attempting_connection", "connection_failed">>]
    ELSE IF d \in {"execute", "fetch", "close"}
    THEN [result |-> ConnectionFailure(classify(error_msg)),
          message |-> [text |-> error_msg,
                       appended |-> remediation(classify(error_msg))],
          db |-> [NoDb EXCEPT !.connects = 1, !.opened = 1, !.executes = 1],
          logs |-> <<"attempting_connection", "connection_failed">>]
    ELSE IF d = "badvalue"
    THEN [result |-> ConnectionFailure(classify(error_msg)),
          message |-> [text |-> error_msg,
                       appended |-> remediation(classify(error_msg))],
          db |-> [NoDb EXCEPT !.connects = 1, !.opened = 1, !.executes = 1,
                              !.closed = 1],
          logs |-> <<"attempting_connection", "connection_successful",
                     "connection_failed">>]
    ELSE [result |-> [ToolResult(TRUE, "none", FALSE, TRUE)
                         EXCEPT !.echo = dsn \cup {"user", "charset"}],
          message |-> NoMessage,
          db |-> [NoDb EXCEPT !.connects = 1, !.opened = 1, !.executes = 1,
                              !.closed = 1],
          logs |-> <<"attempting_connection", "connection_successful">>]

\* FirebirdMCPServer.get_tables.
get_tables(d) ==
    IF ~env.fdb_available
    THEN [result |-> ToolResult(FALSE, "fdb_library_error", FALSE, TRUE),
          db |-> NoDb, logs |-> <<>>]
    ELSE IF ~env.client_available
    THEN [result |-> ToolResult(FALSE, "client_library_error", FALSE, TRUE),
          db |-> NoDb, logs |-> <<>>]
    ELSE IF d = "connect"
    THEN [result |-> ToolResult(FALSE, "none", FALSE, TRUE),
          db |-> [NoDb EXCEPT !.connects = 1],
          logs |-> <<"failed_to_retrieve_tables">>]
    ELSE IF d \in {"execute", "fetch", "close"}
    THEN [result |-> ToolResult(FALSE, "none", FALSE, TRUE),
          db |-> [NoDb EXCEPT !.connects = 1, !.opened = 1, !.executes = 1],
          logs |-> <<"failed_to_retrieve_tables">>]
    ELSE [result |-> ToolResult(TRUE, "none", FALSE, d # "badvalue"),
          db |-> [NoDb EXCEPT !.connects = 1, !.opened = 1, !.executes = 1,
                              !.closed = 1],
          logs |-> <<>>]

-----------------------------------------------------------------------------
(* SQLPatternAnalyzer.                                                     *)

\* The words analyze() and its helpers look for in the upper-cased text.
Keyword ==
    [ JOIN |-> <<"J", "O", "I", "N">>,
      UNION_kw |-> <<"U", "N", "I", "O", "N">>,
      SUBQUERY |-> <<"S", "U", "B", "Q", "U", "E", "R", "Y">>,
      WITH_kw |-> <<"W", "I", "T", "H">>,
      WINDOW |-> <<"W", "I", "N", "D", "O", "W">>,
      PARTITION |-> <<"P", "A", "R", "T", "I", "T", "I", "O", "N">>,
      GROUP |-> <<"G", "R", "O", "U", "P">>,
      BY_kw |-> <<"B", "Y">>,
      HAVING |-> <<"H", "A", "V", "I", "N", "G">>,
      COUNT |-> <<"C", "O", "U", "N", "T">>,
      SUM |-> <<"S", "U", "M">>,
      AVG |-> <<"A", "V", "G">>,
      MIN |-> <<"M", "I", "N">>,
      MAX |-> <<"M", "A", "X">>,
      OVER_PAREN |-> <<"O", "V", "E", "R", "(">>,
      MERGE |-> <<"M", "E", "R", "G", "E">>,
      GLOBAL_TEMPORARY |-> <<"G", "L", "O", "B", "A", "L", " ", "T", "E",
          "M", "P", "O", "R", "A", "R", "Y">>,
      VALUES |-> <<"V", "A", "L", "U", "E", "S">>,
      INSERT |-> <<"I", "N", "S", "E", "R", "T">>,
      INTO |-> <<"I", "N", "T", "O">>,
      RETURNING |-> <<"R", "E", "T", "U", "R", "N", "I", "N", "G">>,
      CASE_kw |-> <<"C", "A", "S", "E">>,
      WHEN |-> <<"W", "H", "E", "N">>,
      UPDATE |-> <<"U", "P", "D", "A", "T", "E">>,
      DELETE |-> <<"D", "E", "L", "E", "T", "E">>,
      WHERE |-> <<"W", "H", "E", "R", "E">>,
      CREATE |-> <<"C", "R", "E", "A", "T", "E">>,
      ALTER |-> <<"A", "L", "T", "E", "R">>,
      DROP |-> <<"D", "R", "O", "P">>,
      INDEX |-> <<"I", "N", "D", "E", "X">>,
      PROCEDURE |-> <<"P", "R", "O", "C", "E", "D", "U", "R", "E">>,
      TRIGGER |-> <<"T", "R", "I", "G", "G", "E", "R">> ]

\* \s of the regular expressions.
RegexSpace == {" ", "\t", "\n"}

\* re.match(a\s+b, s[i:]): a at i, one or more \s, then b.
MatchSpacedAt(s, i, a, b) ==
    /\ MatchAt(s, i, a)
    /\ \E j \in (i + Len(a) + 1)..Len(s) :
         /\ \A k \in (i + Len(a))..(j - 1) : s[k] \in RegexSpace
         /\ MatchAt(s, j, b)

\* re.search(a\s+b, s)
ContainsSpaced(s, a, b) == \E i \in 1..Len(s) : MatchSpacedAt(s, i, a, b)

\* re.search(self.patterns['select_complex'], sql)
select_complex(sql) ==
    \/ Contains(sql, Keyword.JOIN)
    \/ Contains(sql, Keyword.UNION_kw)
    \/ Contains(sql, Keyword.SUBQUERY)
    \/ Contains(sql, Keyword.WITH_kw)
    \/ Contains(sql, Keyword.WINDOW)
    \/ Contains(sql, Keyword.PARTITION)
    \/ ContainsSpaced(sql, Keyword.GROUP, Keyword.BY_kw)
    \/ Contains(sql, Keyword.HAVING)

\* re.search(self.patterns['select_aggregation'], sql)
select_aggregation(sql) ==
    \/ Contains(sql, Keyword.COUNT)
    \/ Contains(sql, Keyword.SUM)
    \/ Contains(sql, Keyword.AVG)
    \/ Contains(sql, Keyword.MIN)
    \/ Contains(sql, Keyword.MAX)
    \/ ContainsSpaced(sql, Keyword.GROUP, Keyword.BY_kw)

\* re.search(self.patterns['insert_batch'], sql): VALUES\s*\([^)]+\)\s*, or
\* INSERT\s+INTO.*SELECT, where . matches no line break.
insert_batch(sql) ==
    \/ \E i \in 1..Len(sql) :
         /\ MatchAt(sql, i, Keyword.VALUES)
         /\ \E open \in (i + Len(Keyword.VALUES))..Len(sql) :
              /\ \A k \in (i + Len(Keyword.VALUES))..(open - 1) : sql[k] \in RegexSpace
              /\ sql[open] = "("
              /\ \E close \in (open + 2)..Len(sql) :
                   /\ \A k \in (open + 1)..(close - 1) : sql[k] # ")"
                   /\ sql[close] = ")"
                   /\ \E comma \in (close + 1)..Len(sql) :
                        /\ \A k \in (close + 1)..(comma - 1) :
                               sql[k] \in RegexSpace
                        /\ sql[comma] = ","
    \/ \E i \in 1..Len(sql) :
         /\ MatchAt(sql, i, Keyword.INSERT)
         /\ \E into \in (i + Len(Keyword.INSERT) + 1)..Len(sql) :
              /\ \A k \in (i + Len(Keyword.INSERT))..(into - 1) : sql[k] \in RegexSpace
              /\ MatchAt(sql, into, Keyword.INTO)
              /\ \E select \in (into + Len(Keyword.INTO))..Len(sql) :
                   /\ \A k \in (into + Len(Keyword.INTO))..(select - 1) : sql[k] # "\n"
                   /\ MatchAt(sql, select, SELECT)

\* re.search(self.patterns['update_complex'], sql)
update_complex(sql) ==
    \/ Contains(sql, Keyword.JOIN)
    \/ Contains(sql, Keyword.SUBQUERY)
    \/ ContainsSpaced(sql, Keyword.CASE_kw, Keyword.WHEN)

\* The empty dictionary.
EmptyDict == [k \in {} |-> Null]

\* dict.update: the entries of other replace or extend those of d.
update(d, other) ==
    [k \in DOMAIN d \cup DOMAIN other |->
        IF k \in DOMAIN other THEN other[k] ELSE d[k]]

\* The items one 'if' adds to a list.
When(condition, items) == IF condition THEN items ELSE <<>>

\* The dictionary analyze() starts from.
DefaultAnalysis ==
    [type |-> "unknown", complexity |-> "simple", category |-> "query",
     suggestions |-> <<>>, firebird_features |-> <<>>,
     performance_tips |-> <<>>]

\* SQLPatternAnalyzer._analyze_select: the dictionary it returns, its lists
\* by value.
_analyze_select(sql) ==
    LET complex == select_complex(sql)
        aggregation == ~complex /\ select_aggregation(sql)
    IN  update(
          [type |-> "select", category |-> "query",
           suggestions |->
               IF complex
               THEN <<"Consider using PLAN to verify optimal execution",
                      "Check if all JOIN conditions use indexed columns">>
               ELSE IF aggregation
               THEN <<"Check index usage for GROUP BY columns",
                      "Consider partial indexes for filtered aggregations">>
               ELSE <<>>,
           firebird_features |->
               When(complex /\ Contains(sql, Keyword.WITH_kw),
                    <<"Common Table Expression (CTE)">>)
               \o When(complex /\ (Contains(sql, Keyword.WINDOW) \/ Contains(sql, Keyword.OVER_PAREN)),
                       <<"Window Functions">>)
               \o When(Contains(sql, Keyword.MERGE), <<"MERGE statement">>)
               \o When(Contains(sql, Keyword.GLOBAL_TEMPORARY),
                       <<"Global Temporary Tables">>),
           performance_tips |->
               IF complex
               THEN <<"Use SET PLAN ON to analyze execution plan">>
               ELSE IF aggregation
               THEN <<"Ensure GROUP BY columns are indexed">>
               ELSE <<>>],
          IF complex THEN [complexity |-> "complex"]
          ELSE IF aggregation THEN [complexity |-> "intermediate"]
          ELSE EmptyDict)

\* SQLPatternAnalyzer._analyze_insert.
_analyze_insert(sql) ==
    LET batch == insert_batch(sql)
    IN  update(
          [type |-> "insert", category |-> "modification",
           suggestions |->
               When(batch,
                    <<"Consider transaction size for batch operations",
                      "Use MERGE for upsert operations when appropriate">>),
           firebird_features |->
               When(Contains(sql, Keyword.RETURNING), <<"RETURNING clause">>),
           performance_tips |->
               When(batch,
                    <<"Batch inserts in appropriately sized transactions",
                      "Consider disabling triggers temporarily for large batches">>)],
          IF batch THEN [complexity |-> "intermediate"] ELSE EmptyDict)

\* SQLPatternAnalyzer._analyze_update.
_analyze_update(sql) ==
    LET complex == update_complex(sql)
    IN  update(
          [type |-> "update", category |-> "modification",
           suggestions |->
               IF complex
               THEN <<"Verify WHERE clause uses indexed columns">>
               ELSE <<"Ensure WHERE clause is selective and uses indexes">>,
           firebird_features |->
               When(Contains(sql, Keyword.RETURNING), <<"RETURNING clause">>),
           performance_tips |->
               When(complex,
                    <<"Use selective WHERE conditions to minimize row scans">>)],
          IF complex THEN [complexity |-> "complex"] ELSE EmptyDict)

\* The two suggestions every DELETE gets.
DeleteBaseline ==
    <<"Always verify WHERE clause before execution",
      "Consider using transaction for safety">>

DeleteWarning == "WARNING: DELETE without WHERE clause affects ALL rows!"

\* list.insert(0, item)
insert0(list, item) == <<item>> \o list

\* 'WHERE' not in sql
where_missing(sql) == ~Contains(sql, Keyword.WHERE)

\* SQLPatternAnalyzer._analyze_delete.
_analyze_delete(sql) ==
    update(
      [type |-> "delete", category |-> "modification",
       suggestions |->
           IF where_missing(sql)
           THEN insert0(DeleteBaseline, DeleteWarning)
           ELSE DeleteBaseline,
       firebird_features |-> <<>>,
       performance_tips |->
           <<"Use selective WHERE conditions",
             "Consider batch deletion for large datasets">>],
      IF where_missing(sql) THEN [complexity |-> "dangerous"] ELSE EmptyDict)

\* A DROP branch that does not escalate the complexity.
ddl_drop_Mild == [type |-> "drop"]

\* What the DROP branch of _analyze_ddl sets besides the suggestions.
ddl_drop == [type |-> "drop", complexity |-> "dangerous"]

\* SQLPatternAnalyzer._analyze_ddl.
_analyze_ddl(sql) ==
    LET create == StartsWith(sql, Keyword.CREATE)
        alter == ~create /\ StartsWith(sql, Keyword.ALTER)
        drop == ~create /\ ~alter /\ StartsWith(sql, Keyword.DROP)
    IN  update(
          [category |-> "ddl",
           suggestions |->
               IF alter
               THEN <<"Schema changes may require exclusive access">>
               ELSE IF drop
               THEN <<"Destructive operation - verify before execution",
                      "Consider backup before dropping objects">>
               ELSE <<>>,
           firebird_features |->
               When(create /\ (Contains(sql, Keyword.PROCEDURE) \/ Contains(sql, Keyword.TRIGGER)),
                    <<"PSQL (Procedural SQL)">>),
           performance_tips |->
               When(create /\ Contains(sql, Keyword.INDEX),
                    <<"Consider partial indexes for selective conditions",
                      "Use expression indexes for computed values">>)],
          IF create THEN [type |-> "create"]
          ELSE IF alter THEN [type |-> "alter"]
          ELSE IF drop THEN ddl_drop
          ELSE EmptyDict)

\* sql_upper = sql.upper().strip()
sql_upper(sql) == Strip(Upper(sql))

\* The if/elif chain of analyze(): what the helper chosen for the
\* normalised text returns, the empty dictionary when none is chosen.
dispatch(text) ==
    IF StartsWith(text, SELECT) THEN _analyze_select(text)
    ELSE IF StartsWith(text, Keyword.INSERT) THEN _analyze_insert(text)
    ELSE IF StartsWith(text, Keyword.UPDATE) THEN _analyze_update(text)
    ELSE IF StartsWith(text, Keyword.DELETE) THEN _analyze_delete(text)
    ELSE IF \/ StartsWith(text, Keyword.CREATE)
            \/ StartsWith(text, Keyword.ALTER)
            \/ StartsWith(text, Keyword.DROP)
    THEN _analyze_ddl(text)
    ELSE EmptyDict

\* SQLPatternAnalyzer.analyze: the dictionary it returns, its lists by
\* value.
analyze(sql) == update(DefaultAnalysis, dispatch(sql_upper(sql)))

\* The list-valued entries of an analysis, in the order its dictionary
\* display evaluates them.
ListKeys == <<"suggestions", "firebird_features", "performance_tips">>

\* An analyzer whose dictionaries share three list objects.
list_display_Shared(h, k) == k

\* The k-th list display ([...]) evaluated on heap h: a new list object,
\* at the first address not in use.
list_display(h, k) == Len(h) + k

\* A dictionary display evaluated on heap h: its lists become new objects
\* holding the given values, and the dictionary refers to them by address.
dict_display(h, d) ==
    LET used == {list_display(h, k) : k \in DOMAIN ListKeys}
        top == CHOOSE a \in used \cup {Len(h)} :
                   \A b \in used \cup {Len(h)} : b <= a
        key(a) == ListKeys[CHOOSE k \in DOMAIN ListKeys : list_display(h, k) = a]
    IN  [heap |-> [a \in 1..top |-> IF a \in used THEN d[key(a)] ELSE h[a]],
         dict |-> [k \in DOMAIN d |->
                      IF \E i \in DOMAIN ListKeys : ListKeys[i] = k
                      THEN list_display(h, CHOOSE i \in DOMAIN ListKeys :
                                                  ListKeys[i] = k)
                      ELSE d[k]]]

\* analyze(sql) on heap h: the display of 'analysis', then the display of
\* the helper's 'result' (if a helper is called), then analysis.update.
\* The in-place changes a helper makes to its own lists before it returns
\* (extend, append, insert) are in the values the lists are given.
analyze_on(h, sql) ==
    LET analysis == dict_display(h, DefaultAnalysis)
        returns == dispatch(sql_upper(sql))
        result == dict_display(analysis.heap, returns)
    IN  IF DOMAIN returns = {}
        THEN analysis
        ELSE [heap |-> result.heap, dict |-> update(analysis.dict, result.dict)]

\* The 'suggestions' list of get_optimization_suggestions before the
\* performance tips of the analysis are added.
optimization_tips(type) ==
    When(type = "select",
         <<"Use FIRST/SKIP for pagination instead of LIMIT/OFFSET",
           "Consider using EXISTS instead of IN for subqueries",
           "Use UNION ALL instead of UNION when duplicates are acceptable">>)
    \o <<"Keep transactions short to avoid garbage collection issues",
         "Use prepared statements to reduce parsing overhead",
         "Monitor MON$ tables for performance analysis">>

\* SQL texts given to analyze().
AnalyzedText ==
    [ DeleteAll |-> <<"D", "E", "L", "E", "T", "E", " ", "F", "R", "O",
          "M", " ", "T">>,
      DeleteWhere |-> <<"d", "e", "l", "e", "t", "e", " ", "f", "r", "o",
          "m", " ", "t", " ", "w", "h", "e", "r", "e", " ", "a", "=", "1">>,
      DeleteElsewhere |-> <<"D", "E", "L", "E", "T", "E", " ", "F", "R",
          "O", "M", " ", "E", "L", "S", "E", "W", "H", "E", "R", "E">>,
      DropTable |-> <<" ", "d", "r", "o", "p", " ", "t", "a", "b", "l",
          "e", " ", "t">>,
      CommentedSelect |-> <<"-", "-", " ", "c", "\n", "S", "E", "L", "E",
          "C", "T", " ", "1">>,
      SelectGroupBy |-> <<"S", "E", "L", "E", "C", "T", " ", "M", "A", "X",
          "(", "A", ")", " ", "F", "R", "O", "M", " ", "T", " ", "G", "R",
          "O", "U", "P", "\t", "B", "Y", " ", "B">>,
      UpdateText |-> <<"U", "P", "D", "A", "T", "E", " ", "T", " ", "S",
          "E", "T", " ", "A", "=", "1">>,
      InsertBatch |-> <<"I", "N", "S", "E", "R", "T", " ", "I", "N", "T",
          "O", " ", "T", " ", "V", "A", "L", "U", "E", "S", " ", "(", "1",
          ")", ",", " ", "(", "2", ")">>,
      CreateIndex |-> <<"C", "R", "E", "A", "T", "E", " ", "I", "N", "D",
          "E", "X", " ", "I">>,
      SelectOver |-> <<"S", "E", "L", "E", "C", "T", " ", "S", "U", "M", "(", "A", ")",
          " ", "O", "V", "E", "R", " ", "(", "B", ")">>,
      UpdateSubquery |-> <<"U", "P", "D", "A", "T", "E", " ", "T", " ", "S", "E", "T", " ",
          "A", "=", "(", "S", "E", "L", "E", "C", "T", " ", "1", ")">> ]

AnalyzedTexts == {AnalyzedText[k] : k \in DOMAIN AnalyzedText} \cup {SqlSelect}

\* A method that commits after every statement.
conn_commit_Always(isSelect) == 1

\* The calls of conn.commit() execute_query makes once the statement has
\* executed: none in the SELECT branch, one in the other branch.
conn_commit(isSelect) == IF isSelect THEN 0 ELSE 1

\* FirebirdMCPServer.execute_query(sql, params).  "raised" is an exception
\* that leaves the method: analyze() on a value that is not a string.
\* The results marked "annotated" carry "analysis": analyze(sql).
execute_query(sql, d) ==
    IF ~env.fdb_available
    THEN [raised |-> FALSE, db |-> NoDb,
          result |-> ToolResult(FALSE, "fdb_library_error", FALSE, TRUE)]
    ELSE IF ~env.client_available
    THEN [raised |-> FALSE, db |-> NoDb,
          result |-> ToolResult(FALSE, "client_library_error", FALSE, TRUE)]
    ELSE IF sql.kind # "string"
    THEN [raised |-> TRUE, db |-> NoDb,
          result |-> ToolResult(FALSE, "none", FALSE, TRUE)]
    ELSE LET isSelect == StartsWith(Upper(Strip(sql.text)), SELECT)
             failed == ToolResult(FALSE, "none", TRUE, TRUE)
         IN  IF d = "connect"
             THEN [raised |-> FALSE, result |-> failed,
                   db |-> [NoDb EXCEPT !.connects = 1]]
             ELSE IF \/ d = "execute"
                     \/ d = "close"
                     \/ (d = "fetch" /\ isSelect)
                     \/ (d = "commit" /\ ~isSelect)
             THEN [raised |-> FALSE, result |-> failed,
                   db |-> [NoDb EXCEPT !.connects = 1, !.opened = 1,
                                       !.executes = 1,
                                       !.commits = IF d = "close"
                                                   THEN conn_commit(isSelect)
                                                   ELSE 0]]
             ELSE [raised |-> FALSE,
                   result |-> ToolResult(TRUE, "none", TRUE,
                                         ~(d = "badvalue" /\ isSelect)),
                   db |-> [NoDb EXCEPT !.connects = 1, !.opened = 1,
                                       !.executes = 1, !.closed = 1,
                                       !.commits = conn_commit(isSelect)]]

-----------------------------------------------------------------------------
(* DefaultPromptManager.                                                   *)

\* A target list that includes the status tool.
target_tools_WithStatus ==
    {"execute_query", "test_connection", "list_tables", "server_status"}

\* target_tools of apply_to_response and get_enhanced_tool_description.
target_tools == {"execute_query", "test_connection", "list_tables"}

\* DefaultPromptManager.get_default_context, called with config.enabled
\* true: the context is built from the 'prompts.manager' strings; when they
\* are missing the lookup yields the key path, indexing it raises, and the
\* except branch returns "".  firebird_server is None for the manager, so
\* _get_firebird_version makes no Database Client call.
get_default_context(cfg) ==
    IF ~cfg.enabled
    THEN [context |-> FALSE, keys |-> {}, logs |-> <<"context_disabled">>]
    ELSE IF I18nHas("prompts.manager")
    THEN [context |-> TRUE, keys |-> {"prompts.manager"},
          logs |-> <<"generated_context">>]
    ELSE [context |-> FALSE, keys |-> {"prompts.manager"},
          logs |-> <<"context_error">>]

\* DefaultPromptManager.apply_to_response(content, tool_name, disabled):
\* "guided" tells whether the context was prepended to the content.
apply_to_response(tool_name, disabled, cfg) ==
    IF disabled
    THEN [guided |-> FALSE, keys |-> {},
          logs |-> <<"apply_called", "disabled_by_parameter">>]
    ELSE IF ~cfg.enabled
    THEN [guided |-> FALSE, keys |-> {},
          logs |-> <<"apply_called", "disabled_in_config">>]
    ELSE IF ~cfg.auto_apply
    THEN [guided |-> FALSE, keys |-> {},
          logs |-> <<"apply_called", "auto_apply_disabled">>]
    ELSE IF tool_name \in target_tools
    THEN LET c == get_default_context(cfg)
         IN  [guided |-> c.context, keys |-> c.keys,
              logs |-> <<"apply_called">> \o c.logs \o
                       <<IF c.context THEN "applying_context"
                         ELSE "no_context_generated">>]
    ELSE [guided |-> FALSE, keys |-> {},
          logs |-> <<"apply_called", "not_in_target_list">>]

\* DefaultPromptManager.update_config(key=value): a key of the config is
\* assigned, any other key is only logged.
update_config(cfg, key, value) ==
    IF key \in DOMAIN cfg THEN [cfg EXCEPT ![key] = value] ELSE cfg

\* DefaultPromptManager.get_enhanced_tool_description: raises when the
\* config is enabled, the tool is a target and 'prompts.manager' is missing.
get_enhanced_tool_description(tool_name, cfg) ==
    IF ~cfg.enabled THEN [raised |-> FALSE, keys |-> {}]
    ELSE IF tool_name \in target_tools
    THEN [raised |-> ~I18nHas("prompts.manager"), keys |-> {"prompts.manager"}]
    ELSE [raised |-> FALSE, keys |-> {}]

-----------------------------------------------------------------------------
(* PromptGenerator.                                                        *)

\* PromptGenerator.base_prompts
base_prompts == {"firebird_expert", "firebird_performance", "firebird_architecture"}

\* PromptGenerator.generate(prompt_name, arguments): "raised" is the
\* ValueError for a name outside base_prompts, or the fault of a generator
\* (arguments that are not a dictionary, a missing template).
generate(prompt_name, arguments, d) ==
    IF prompt_name \notin base_prompts
    THEN [raised |-> TRUE, keys |-> {}, db |-> NoDb, logs |-> <<>>]
    ELSE IF arguments.shape = "nondict"
    THEN [raised |-> TRUE, keys |-> {}, db |-> NoDb, logs |-> <<>>]
    ELSE IF prompt_name = "firebird_expert"
    THEN LET t == get_tables(d)
             tkeys == IF t.result.ok
                      THEN {"prompt_templates.firebird_expert.available_tables"}
                      ELSE {}
             keys == tkeys \cup {"prompt_templates.firebird_expert",
                                 "operation_guidance", "complexity_levels"}
         IN  IF I18nHas("prompt_templates.firebird_expert")
             THEN [raised |-> FALSE, db |-> t.db, logs |-> t.logs,
                   keys |-> keys \cup
                            {"environment.target_host",
                             "environment.target_database",
                             "environment.user", "environment.charset"}]
             ELSE [raised |-> TRUE, db |-> t.db, logs |-> t.logs, keys |-> keys]
    ELSE LET tmpl == IF prompt_name = "firebird_performance"
                     THEN "prompt_templates.firebird_performance"
                     ELSE "prompt_templates.firebird_architecture"
             keys == IF prompt_name = "firebird_performance"
                     THEN {tmpl, "query_optimizations", "focus_techniques"}
                     ELSE {tmpl, "architecture_topics", "version_features"}
         IN  IF I18nHas(tmpl)
             THEN [raised |-> FALSE, db |-> NoDb, logs |-> <<>>,
                   keys |-> keys \cup {"environment.info"}]
             ELSE [raised |-> TRUE, db |-> NoDb, logs |-> <<>>, keys |-> keys]

-----------------------------------------------------------------------------
(* MCPServer: responses and handlers.                                      *)

\* MCPServer.send_response: the envelope {"jsonrpc", "id", "result"}.
\* "isError" is "none" for a result without that member; "tag" names the
\* payload, "ok" is the success/connected flag of an embedded tool result,
\* "guided" tells whether the guidance context was prepended and "echo"
\* which entries of DB_CONFIG the text carries verbatim.
send_response(request_id, tag, isError, ok, guided) ==
    [id |-> request_id, kind |-> "result", code |-> 0, isError |-> isError,
     tag |-> tag, ok |-> ok, guided |-> guided, echo |-> {}]

\* MCPServer.send_error: the envelope {"jsonrpc", "id", "error": {code, message}}.
send_error(request_id, code, tag) ==
    [id |-> request_id, kind |-> "error", code |-> code, isError |-> "none",
     tag |-> tag, ok |-> "none", guided |-> FALSE, echo |-> {}]

\* The ok flag of a tool result, as text.
OkText(result) == IF result.ok THEN "true" ELSE "false"

NoKeys == [i \in I18nInstances |-> {}]

\* What handling one message did: responses written, log lines written,
\* keys looked up per I18n instance, handlers entered, Database Client use,
\* the prompt manager's config afterwards, and whether an exception left
\* the handler.
Effect(out, logs, keys, calls, db, cfg, raised) ==
    [out |-> out, logs |-> logs, keys |-> keys, calls |-> calls, db |-> db,
     cfg |-> cfg, raised |-> raised]

KeysOf(mcp, manager, generator) ==
    [i \in I18nInstances |->
        CASE i = "mcp" -> mcp [] i = "manager" -> manager [] OTHER -> generator]

\* MCPServer.handle_initialize
handle_initialize(request_id, cfg) ==
    Effect(<<send_response(request_id, "initialize", "none", "none", FALSE)>>,
           <<>>, NoKeys, <<"handle_initialize">>, NoDb, cfg, FALSE)

\* MCPServer.handle_tools_list: the first enhanced description raises when
\* the manager cannot index its template.
handle_tools_list(request_id, cfg) ==
    LET e == get_enhanced_tool_description("test_connection", cfg)
    IN  IF e.raised
        THEN Effect(<<>>, <<>>,
                    KeysOf({"tools.test_connection.name",
                            "tools.test_connection.description"}, e.keys, {}),
                    <<"handle_tools_list">>, NoDb, cfg, TRUE)
        ELSE Effect(<<send_response(request_id, "tools", "none", "none", FALSE)>>,
                    <<>>,
                    KeysOf({"tools.test_connection.name",
                            "tools.test_connection.description",
                            "tools.execute_query.name",
                            "tools.execute_query.description",
                            "tools.execute_query.sql_description",
                            "tools.execute_query.params_description",
                            "tools.list_tables.name",
                            "tools.list_tables.description",
                            "tools.server_status.name",
                            "tools.server_status.description"}, e.keys, {}),
                    <<"handle_tools_list">>, NoDb, cfg, FALSE)

\* The properties of the input schema handle_tools_list gives a tool.
inputSchema(tool_name) ==
    CASE tool_name = "execute_query" ->
            {"sql", "params", "disable_expert_mode", "expert_operation"}
      [] tool_name = "server_status" -> {}
      [] OTHER -> {"disable_expert_mode"}

\* The 'tools' list of handle_tools_list: per tool its name, its
\* description (the original text, or that text followed by the
\* auto-expert line of get_enhanced_tool_description) and its schema.
tools(cfg) ==
    [t \in Tools |->
        [name |-> t,
         description |-> IF cfg.enabled /\ t \in target_tools
                         THEN "enhanced" ELSE "original",
         inputSchema |-> inputSchema(t)]]

\* MCPServer.handle_resources_list
handle_resources_list(request_id, cfg) ==
    Effect(<<send_response(request_id, "resources", "none", "none", FALSE)>>,
           <<>>, NoKeys, <<"handle_resources_list">>, NoDb, cfg, FALSE)

\* MCPServer.handle_prompts_list: PromptGenerator has no method
\* get_available_table_prompts, so the call raises AttributeError.
handle_prompts_list(request_id, cfg) ==
    Effect(<<>>, <<>>, NoKeys, <<"handle_prompts_list">>, NoDb, cfg, TRUE)

\* An except branch that reports the fault as a tool-style result payload.
PromptError_AsResult(request_id, cfg, logs, generatorKeys, db) ==
    Effect(<<send_response(request_id, "error_generating", "true", "none", FALSE)>>,
           logs, KeysOf({"table_schema.error_generating"}, {}, generatorKeys),
           <<"handle_prompts_get">>, db, cfg, FALSE)

\* The except branch of handle_prompts_get: send_error(-32603).
PromptError(request_id, cfg, logs, generatorKeys, db) ==
    Effect(<<send_error(request_id, INTERNAL_ERROR, "error_generating")>>,
           logs, KeysOf({"table_schema.error_generating"}, {}, generatorKeys),
           <<"handle_prompts_get">>, db, cfg, FALSE)

\* MCPServer.handle_prompts_get: every fault inside it, the unknown prompt
\* name included, is answered by the except branch.
handle_prompts_get(request_id, params, cfg, d) ==
    IF params.shape = "nondict"
    THEN PromptError(request_id, cfg, <<>>, {}, NoDb)
    ELSE LET g == generate(params.name, params.arguments, d)
         IN  IF g.raised
             THEN PromptError(request_id, cfg, g.logs, g.keys, g.db)
             ELSE Effect(<<send_response(request_id, "prompt", "none", "none", FALSE)>>,
                         g.logs, KeysOf({}, {}, g.keys),
                         <<"handle_prompts_get">>, g.db, cfg, FALSE)

\* The except branch of handle_tools_call: a result envelope whose payload
\* has isError true and the text "<error_executing> <tool>: <exception>".
ToolError(request_id, cfg, mcpKeys, managerKeys, logs, db) ==
    Effect(<<send_response(request_id, "error_executing", "true", "none", FALSE)>>,
           logs, KeysOf(mcpKeys \cup {"tools.error_executing"}, managerKeys, {}),
           <<"handle_tools_call">>, db, cfg, FALSE)

\* The success path of handle_tools_call for the three database tools.
ToolSuccess(request_id, cfg, tag, key, result, a, logs, db) ==
    Effect(<<[send_response(request_id, tag, "false", OkText(result), a.guided)
                 EXCEPT !.echo = result.echo]>>,
           logs \o a.logs, KeysOf({key}, a.keys, {}),
           <<"handle_tools_call">>, db, cfg, FALSE)

\* MCPServer._get_server_status: the connection test runs only with both
\* libraries available; the final get_available_table_prompts call raises.
get_server_status(d) ==
    IF env.fdb_available /\ env.client_available
    THEN LET tc == test_connection(d, DriverText)
         IN  [raised |-> TRUE, db |-> tc.db, logs |-> tc.logs]
    ELSE [raised |-> TRUE, db |-> NoDb, logs |-> <<>>]

\* A branch that hands every sql value to the Firebird server.
sql_missing_Unchecked(sql) == FALSE

\* 'if not sql' of the execute_query branch: sql absent, null or empty.
sql_missing(sql) == sql.kind = "falsy"

\* A branch that leaves the per-call operation type in the config.
restore_operation_Skipped(during, original_operation) == during

\* self.prompt_manager.config['operation_type'] = original_operation
restore_operation(during, original_operation) ==
    [during EXCEPT !.operation_type = original_operation]

\* The execute_query branch of handle_tools_call, arguments a dictionary.
ExecuteQueryBranch(request_id, arguments, cfg, d) ==
    LET disable_expert_mode == arguments.disable
        expert_operation == IF arguments.op = OpAbsent THEN cfg.operation_type
                            ELSE arguments.op
        sql == arguments.sql
        q == execute_query(sql, d)
    IN  IF sql_missing(sql)
        THEN ToolError(request_id, cfg, {"tools.sql_required"}, {}, <<>>, NoDb)
        ELSE IF q.raised
        THEN ToolError(request_id, cfg, {}, {}, <<>>, q.db)
        ELSE IF ~q.result.encodable
        THEN ToolError(request_id, cfg, {"tools.query_results"}, {}, <<>>, q.db)
        ELSE IF ~disable_expert_mode /\ expert_operation # ""
        THEN LET original_operation == cfg.operation_type
                 during == [cfg EXCEPT !.operation_type = expert_operation]
                 a == apply_to_response("execute_query", FALSE, during)
                 after == restore_operation(during, original_operation)
             IN  ToolSuccess(request_id, after, "query", "tools.query_results",
                             q.result, a, <<>>, q.db)
        ELSE LET a == apply_to_response("execute_query", disable_expert_mode, cfg)
             IN  ToolSuccess(request_id, cfg, "query", "tools.query_results",
                             q.result, a, <<>>, q.db)

\* MCPServer.handle_tools_call.  params.get and arguments.get run before the
\* try block: params or arguments that are not dictionaries raise out of
\* the handler.
handle_tools_call(request_id, params, cfg, d) ==
    IF params.shape = "nondict" \/ params.arguments.shape = "nondict"
    THEN Effect(<<>>, <<>>, NoKeys, <<"handle_tools_call">>, NoDb, cfg, TRUE)
    ELSE LET tool_name == params.name
             arguments == params.arguments
         IN  CASE tool_name = "test_connection" ->
                    LET r == test_connection(d, DriverText)
                        a == apply_to_response(tool_name, arguments.disable, cfg)
                    IN  ToolSuccess(request_id, cfg, "connection",
                                    "connection.test_results", r.result, a,
                                    r.logs, r.db)
               [] tool_name = "execute_query" ->
                    ExecuteQueryBranch(request_id, arguments, cfg, d)
               [] tool_name = "list_tables" ->
                    LET t == get_tables(d)
                        a == apply_to_response(tool_name, arguments.disable, cfg)
                    IN  IF ~t.result.encodable
                        THEN ToolError(request_id, cfg, {"tools.database_tables"},
                                       {}, t.logs, t.db)
                        ELSE ToolSuccess(request_id, cfg, "tables",
                                         "tools.database_tables", t.result, a,
                                         t.logs, t.db)
               [] tool_name = "server_status" ->
                    LET st == get_server_status(d)
                    IN  ToolError(request_id, cfg, {}, {}, st.logs, st.db)
               [] OTHER ->
                    ToolError(request_id, cfg, {"tools.unknown_tool"}, {},
                              <<>>, NoDb)

\* An else branch that answers an unrecognised method with -32603.
method_not_found_AsInternal(request_id, cfg) ==
    Effect(<<send_error(request_id, INTERNAL_ERROR, "method_not_found")>>,
           <<>>, KeysOf({"errors.method_not_found"}, {}, {}),
           <<>>, NoDb, cfg, FALSE)

\* The else branch of handle_request: send_error(-32601).
method_not_found(request_id, cfg) ==
    Effect(<<send_error(request_id, METHOD_NOT_FOUND, "method_not_found")>>,
           <<>>, KeysOf({"errors.method_not_found"}, {}, {}),
           <<>>, NoDb, cfg, FALSE)

\* The if/elif chain of handle_request for a decoded JSON object.
Route(request, request_id, cfg, d) ==
    LET method == request.method
        params == request.params
    IN  CASE method = "initialize" -> handle_initialize(request_id, cfg)
          [] method = "tools/list" -> handle_tools_list(request_id, cfg)
          [] method = "tools/call" -> handle_tools_call(request_id, params, cfg, d)
          [] method = "resources/list" -> handle_resources_list(request_id, cfg)
          [] method = "prompts/list" -> handle_prompts_list(request_id, cfg)
          [] method = "prompts/get" -> handle_prompts_get(request_id, params, cfg, d)
          [] method = "notifications/initialized" ->
                Effect(<<>>, <<"notification_received">>,
                       KeysOf({"errors.notification_received"}, {}, {}),
                       <<>>, NoDb, cfg, FALSE)
          [] OTHER -> method_not_found(request_id, cfg)

\* MCPServer.handle_request: an exception leaving a handler is logged and
\* answered with -32603.  For a value that is not a JSON object,
\* request.get raises inside the try block and again inside the except
\* branch (after its log line), so the exception leaves handle_request.
handle_request(request, request_id, cfg, d) ==
    IF request.shape # "object"
    THEN Effect(<<>>, <<"error_handling">>,
                KeysOf({"server_info.error_handling"}, {}, {}),
                <<>>, NoDb, cfg, TRUE)
    ELSE LET r == Route(request, request_id, cfg, d)
         IN  IF r.raised
             THEN Effect(r.out \o <<send_error(request_id, INTERNAL_ERROR, "internal_error")>>,
                         r.logs \o <<"error_handling">>,
                         [r.keys EXCEPT !["mcp"] = @ \cup {"server_info.error_handling"}],
                         r.calls, r.db, r.cfg, FALSE)
             ELSE r

-----------------------------------------------------------------------------
(* MCPServer.run: the read / decode / handle loop.                         *)

\* The observation of the latest input line before any line was read.
NoLast ==
    [n |-> 0, kind |-> "none", request |-> NoRequest, d |-> "ok",
     handled |-> FALSE, escaped |-> FALSE, out |-> <<>>, logs |-> <<>>,
     warns |-> 0, calls |-> <<>>, db |-> NoDb]

\* No FirebirdMCPServer method was called directly, or analyze() was called
\* since.
NoOutcome ==
    [op |-> "none", d |-> "ok", text |-> <<>>, sql |-> NoSql, raised |-> FALSE,
     result |-> ToolResult(FALSE, "none", FALSE, TRUE), message |-> NoMessage,
     db |-> NoDb, analysis |-> Null]

\* DEFAULT_PROMPT_CONFIG with none of the FIREBIRD_* prompt variables set:
\* the defaults of the os.getenv calls.
DEFAULT_PROMPT_CONFIG ==
    [enabled |-> TRUE, auto_apply |-> FALSE, prompt_name |-> "firebird_expert",
     operation_type |-> "query", complexity_level |-> "intermediate",
     compact_mode |-> TRUE]

\* DEFAULT_PROMPT_CONFIG as read from the environment at import time.
PromptConfigs ==
    [enabled : BOOLEAN, auto_apply : BOOLEAN, prompt_name : {"firebird_expert"},
     operation_type : {"query"}, complexity_level : {"intermediate"},
     compact_mode : {TRUE}]

\* initialize_libraries: the client library is looked for only after the
\* driver was imported.
Environments ==
    {e \in [fdb_available : BOOLEAN, client_available : BOOLEAN,
            strings : StringTables] :
        e.client_available => e.fdb_available}

Init ==
    /\ pc = "start"
    /\ remaining = MaxLines
    /\ nread = 0
    /\ line = NoLine
    /\ decoded = NoRequest
    /\ stdout = <<>>
    /\ last = NoLast
    /\ missing_keys = NoKeys
    /\ config \in PromptConfigs
    /\ env \in Environments
    /\ stopCause = "running"
    /\ shutdownLogs = 0
    /\ heap = <<>>
    /\ returned = <<>>
    /\ outcome = NoOutcome
    /\ listed = <<>>

\* A loop body whose exceptions end the loop.
loop_body_except_Stops(raised) == IF raised THEN "stopped" ELSE "idle"

\* The 'except Exception' of the loop body: the exception is logged and the
\* loop goes on to the next line.
loop_body_except(raised) == "idle"

\* A run() that returns without the shutdown log line.
finally_shutdown_log_Skipped(logged) == logged

\* The finally clause of run(): one 'shutting_down' log line.
finally_shutdown_log(logged) == logged + 1

\* The missing_keys of every I18n instance after the lookups of one step.
MissingAfter(keys) ==
    [i \in I18nInstances |-> missing_keys[i] \cup I18nMissing(keys[i])]

\* The number of "Missing translation key" warnings one step prints.
WarningsOf(keys) ==
    Cardinality(I18nWarnings("mcp", keys["mcp"]))
    + Cardinality(I18nWarnings("manager", keys["manager"]))
    + Cardinality(I18nWarnings("generator", keys["generator"]))

\* A loop that writes one more line per processed request to standard output.
Written_WithDiagnostics(out) ==
    [i \in 1..(Len(out) + 1) |->
        [for |-> nread, id |-> IF i <= Len(out) THEN out[i].id ELSE NoId]]

\* The responses of the line being processed, as lines of standard output:
\* which input line each answers and the id it carries.  The envelopes
\* themselves are kept in last.out while the line is the current one.
Written(out) == [i \in 1..Len(out) |-> [for |-> nread, id |-> out[i].id]]

\* run(), before the loop: the 'waiting' log line.
RunStart ==
    /\ UNCHANGED directVars
    /\ pc = "start"
    /\ pc' = "idle"
    /\ missing_keys' = MissingAfter(KeysOf({"server_info.waiting"}, {}, {}))
    /\ UNCHANGED <<remaining, nread, line, decoded, stdout, last, config, env,
                   stopCause, shutdownLogs>>

\* for line in sys.stdin: the next line arrives.
ReadLine ==
    /\ UNCHANGED directVars
    /\ pc = "idle"
    /\ remaining > 0
    /\ \E l \in LineKinds : line' = l
    /\ decoded' = NoRequest
    /\ nread' = nread + 1
    /\ remaining' = remaining - 1
    /\ pc' = "decoding"
    /\ last' = NoLast
    /\ UNCHANGED <<stdout, missing_keys, config, env, stopCause, shutdownLogs>>

\* for line in sys.stdin: end of input; the finally clause logs the
\* shutdown message and run() returns.
EndOfInput ==
    /\ UNCHANGED directVars
    /\ pc = "idle"
    /\ remaining = 0
    /\ pc' = "stopped"
    /\ stopCause' = "eof"
    /\ shutdownLogs' = finally_shutdown_log(shutdownLogs)
    /\ missing_keys' = MissingAfter(KeysOf({"server_info.shutting_down"}, {}, {}))
    /\ line' = NoLine
    /\ decoded' = NoRequest
    /\ last' = NoLast
    /\ UNCHANGED <<remaining, nread, stdout, config, env>>

\* for line in sys.stdin: the iterator itself raises (the bytes of the next
\* line are not valid in the stream's encoding, the stream fails).  The
\* outer 'except Exception' logs 'server_error', then the finally clause.
ReadFault ==
    /\ UNCHANGED directVars
    /\ pc = "idle"
    /\ remaining > 0
    /\ remaining' = remaining - 1
    /\ pc' = "stopped"
    /\ stopCause' = "server_error"
    /\ shutdownLogs' = finally_shutdown_log(shutdownLogs)
    /\ missing_keys' = MissingAfter(KeysOf({"server_info.server_error",
                                            "server_info.shutting_down"}, {}, {}))
    /\ line' = NoLine
    /\ decoded' = NoRequest
    /\ last' = NoLast
    /\ UNCHANGED <<nread, stdout, config, env>>

\* KeyboardInterrupt, taken while the loop waits for a line or between the
\* steps of processing one: 'interrupted' is logged, then the finally clause.
Interrupt ==
    /\ UNCHANGED directVars
    /\ pc \in {"idle", "decoding", "handling"}
    /\ pc' = "stopped"
    /\ stopCause' = "interrupt"
    /\ shutdownLogs' = finally_shutdown_log(shutdownLogs)
    /\ missing_keys' = MissingAfter(KeysOf({"server_info.interrupted",
                                            "server_info.shutting_down"}, {}, {}))
    /\ line' = NoLine
    /\ decoded' = NoRequest
    /\ last' = NoLast
    /\ UNCHANGED <<remaining, nread, stdout, config, env>>

\* line.strip() is empty: continue.
SkipBlank ==
    /\ UNCHANGED directVars
    /\ pc = "decoding"
    /\ line = "blank"
    /\ pc' = "idle"
    /\ last' = [NoLast EXCEPT !.n = nread, !.kind = "blank"]
    /\ UNCHANGED <<remaining, nread, line, decoded, stdout, missing_keys,
                   config, env, stopCause, shutdownLogs>>

\* json.loads raises JSONDecodeError: one 'invalid_json' log line.
DecodeError ==
    /\ UNCHANGED directVars
    /\ pc = "decoding"
    /\ line = "malformed"
    /\ pc' = "idle"
    /\ LET keys == KeysOf({"server_info.invalid_json"}, {}, {})
       IN  /\ last' = [NoLast EXCEPT !.n = nread, !.kind = "malformed",
                                     !.logs = <<"invalid_json">>,
                                     !.warns = WarningsOf(keys)]
           /\ missing_keys' = MissingAfter(keys)
    /\ UNCHANGED <<remaining, nread, line, decoded, stdout, config, env,
                   stopCause, shutdownLogs>>

\* json.loads returns a value: a JSON object or any other JSON value.
DecodeOk ==
    /\ UNCHANGED directVars
    /\ pc = "decoding"
    /\ line = "json"
    /\ \E r \in Requests \cup {NonObject} : decoded' = r
    /\ pc' = "handling"
    /\ UNCHANGED <<remaining, nread, line, stdout, last, missing_keys, config,
                   env, stopCause, shutdownLogs>>

\* self.handle_request(request), and the 'except Exception' of the loop
\* body for an exception that leaves it: one 'error_processing' log line.
\* e is what the one call of handle_request did, keys the key paths looked
\* up while the line was processed.
HandleRequest ==
    /\ UNCHANGED directVars
    /\ pc = "handling"
    /\ \E d \in DbOutcomes :
         \E e \in {handle_request(decoded, IF decoded.hasId THEN nread ELSE NoId,
                                  config, d)} :
         \E keys \in {IF e.raised
                      THEN [e.keys EXCEPT !["mcp"] = @ \cup {"server_info.error_processing"}]
                      ELSE e.keys} :
             /\ stdout' = stdout \o Written(e.out)
             /\ config' = e.cfg
             /\ missing_keys' = MissingAfter(keys)
             /\ d # "ok" => e.db.connects > 0
             /\ last' = [n |-> nread, kind |-> "json", request |-> decoded,
                         d |-> d,
                         handled |-> TRUE, escaped |-> e.raised, out |-> e.out,
                         logs |-> IF e.raised THEN e.logs \o <<"error_processing">>
                                  ELSE e.logs,
                         warns |-> WarningsOf(keys),
                         calls |-> e.calls, db |-> e.db]
             /\ pc' = loop_body_except(e.raised)
    /\ UNCHANGED <<remaining, nread, line, decoded, env, stopCause, shutdownLogs>>

Next ==
    \/ RunStart
    \/ ReadLine
    \/ EndOfInput
    \/ ReadFault
    \/ Interrupt
    \/ SkipBlank
    \/ DecodeError
    \/ DecodeOk
    \/ HandleRequest

Spec == Init /\ [][Next]_vars

\* The process is scheduled until run() returns, standard input delivers
\* each of its finitely many lines or its end, and every handler and
\* database call returns.
FairSpec == Spec /\ WF_vars(Next)

-----------------------------------------------------------------------------
(* FirebirdMCPServer and SQLPatternAnalyzer called directly, the way the   *)
(* unit tests and an embedding program call them: MaxCalls calls, each of  *)
(* one method.                                                             *)

\* The sql argument of a direct call: a string or a value of another type.
SqlValues == {[kind |-> "string", text |-> t] : t \in SqlTexts} \cup {NonStringSql}

\* FirebirdMCPServer.__init__(fdb_available, client_available): the caller
\* chooses each flag.
ConstructorFlags ==
    [fdb_available : BOOLEAN, client_available : BOOLEAN, strings : {AllKeys}]

DirectInit ==
    /\ pc = "direct"
    /\ remaining = MaxCalls
    /\ nread = 0
    /\ line = NoLine
    /\ decoded = NoRequest
    /\ stdout = <<>>
    /\ last = NoLast
    /\ missing_keys = NoKeys
    /\ config \in {c \in PromptConfigs : c.enabled /\ c.auto_apply}
    /\ env \in ConstructorFlags
    /\ stopCause = "running"
    /\ shutdownLogs = 0
    /\ heap = <<>>
    /\ returned = <<>>
    /\ outcome = NoOutcome
    /\ listed = <<>>

\* firebird_server.test_connection(), the connection attempt failing with
\* the text error_msg where d says that a call raises.
CallTestConnection ==
    /\ pc = "direct"
    /\ remaining > 0
    /\ remaining' = remaining - 1
    /\ \E d \in DbOutcomes, error_msg \in FailureTexts :
         \E r \in {test_connection(d, error_msg)} :
             outcome' = [op |-> "test_connection", d |-> d, text |-> error_msg,
                         sql |-> NoSql, raised |-> FALSE, result |-> r.result,
                         message |-> r.message, db |-> r.db,
                         analysis |-> Null]
    /\ UNCHANGED <<heap, returned, listed>>
    /\ UNCHANGED runVars

\* firebird_server.execute_query(sql).  "analysis" is the value under the
\* key "analysis" of the result, Null when the result has no such key.
CallExecuteQuery ==
    /\ pc = "direct"
    /\ remaining > 0
    /\ remaining' = remaining - 1
    /\ \E d \in DbOutcomes, sql \in SqlValues :
         \E r \in {execute_query(sql, d)} :
             outcome' = [op |-> "execute_query", d |-> d, text |-> <<>>,
                         sql |-> sql, raised |-> r.raised, result |-> r.result,
                         message |-> NoMessage, db |-> r.db,
                         analysis |-> IF r.result.annotated
                                      THEN analyze(sql.text) ELSE Null]
    /\ UNCHANGED <<heap, returned, listed>>
    /\ UNCHANGED runVars

\* firebird_server.get_tables().
CallGetTables ==
    /\ pc = "direct"
    /\ remaining > 0
    /\ remaining' = remaining - 1
    /\ \E d \in DbOutcomes :
         \E r \in {get_tables(d)} :
             outcome' = [op |-> "get_tables", d |-> d, text |-> <<>>,
                         sql |-> NoSql, raised |-> FALSE, result |-> r.result,
                         message |-> NoMessage, db |-> r.db,
                         analysis |-> Null]
    /\ UNCHANGED <<heap, returned, listed>>
    /\ UNCHANGED runVars

DirectNext ==
    \/ CallTestConnection
    \/ CallExecuteQuery
    \/ CallGetTables

DirectSpec == DirectInit /\ [][DirectNext]_vars

-----------------------------------------------------------------------------
(* SQLPatternAnalyzer called directly: MaxCalls calls of its two public    *)
(* methods on one instance.                                                *)

AnalyzerInit ==
    /\ pc = "analyzer"
    /\ remaining = MaxCalls
    /\ nread = 0
    /\ line = NoLine
    /\ decoded = NoRequest
    /\ stdout = <<>>
    /\ last = NoLast
    /\ missing_keys = NoKeys
    /\ config \in {c \in PromptConfigs : c.enabled /\ c.auto_apply}
    /\ env \in {e \in ConstructorFlags : e.fdb_available /\ e.client_available}
    /\ stopCause = "running"
    /\ shutdownLogs = 0
    /\ heap = <<>>
    /\ returned = <<>>
    /\ outcome = NoOutcome
    /\ listed = <<>>

\* analyzer.analyze(sql): the caller keeps the dictionary it gets.
Analyze ==
    /\ pc = "analyzer"
    /\ remaining > 0
    /\ remaining' = remaining - 1
    /\ \E sql \in AnalyzedTexts :
         \E a \in {analyze_on(heap, sql)} :
             /\ heap' = a.heap
             /\ returned' = Append(returned, [sql |-> sql, dict |-> a.dict])
    /\ UNCHANGED <<outcome, listed>>
    /\ UNCHANGED runVars

\* analyzer.get_optimization_suggestions(sql): it calls analyze(sql), builds
\* a list of its own and returns the concatenation, a third list; the
\* analysis is dropped.
GetOptimizationSuggestions ==
    /\ pc = "analyzer"
    /\ remaining > 0
    /\ remaining' = remaining - 1
    /\ \E sql \in AnalyzedTexts :
         \E a \in {analyze_on(heap, sql)} :
             heap' = a.heap \o <<optimization_tips(a.dict.type)>>
                            \o <<optimization_tips(a.dict.type)
                                 \o a.heap[a.dict.performance_tips]>>
    /\ UNCHANGED <<returned, outcome, listed>>
    /\ UNCHANGED runVars

AnalyzerNext ==
    \/ Analyze
    \/ GetOptimizationSuggestions

AnalyzerSpec == AnalyzerInit /\ [][AnalyzerNext]_vars

-----------------------------------------------------------------------------
(* MCPServer.handle_tools_list and DefaultPromptManager.update_config      *)
(* called directly on one server, the way the unit tests and an embedding  *)
(* program call them: MaxCalls calls.                                      *)

\* The keyword arguments given to update_config.
ConfigUpdates ==
    [key : {"enabled", "auto_apply"}, value : BOOLEAN]
    \cup [key : {"complexity_level"}, value : {"advanced"}]
    \cup [key : {"verbose"}, value : {TRUE}]

RegistryInit ==
    /\ pc = "registry"
    /\ remaining = MaxCalls
    /\ nread = 0
    /\ line = NoLine
    /\ decoded = NoRequest
    /\ stdout = <<>>
    /\ last = NoLast
    /\ missing_keys = NoKeys
    /\ config \in PromptConfigs
    /\ env \in {e \in Environments : e.fdb_available /\ e.client_available}
    /\ stopCause = "running"
    /\ shutdownLogs = 0
    /\ heap = <<>>
    /\ returned = <<>>
    /\ outcome = NoOutcome
    /\ listed = <<>>

\* prompt_manager.update_config(key=value): one log line, its text looked
\* up under 'prompts.manager.config_updated' or '...unknown_config_key'.
UpdateConfig ==
    /\ pc = "registry"
    /\ remaining > 0
    /\ remaining' = remaining - 1
    /\ \E u \in ConfigUpdates :
         /\ config' = update_config(config, u.key, u.value)
         /\ missing_keys' =
               MissingAfter(KeysOf({}, {IF u.key \in DOMAIN config
                                        THEN "prompts.manager.config_updated"
                                        ELSE "prompts.manager.unknown_config_key"},
                                   {}))
    /\ UNCHANGED <<pc, nread, line, decoded, stdout, last, env, stopCause,
                   shutdownLogs>>
    /\ UNCHANGED directVars

\* mcp_server.handle_tools_list(request_id, params): the 'tools' list it
\* sends, or the exception that leaves it.
ListTools ==
    /\ pc = "registry"
    /\ remaining > 0
    /\ remaining' = remaining - 1
    /\ \E e \in {handle_tools_list(NoId, config)} :
         /\ listed' = Append(listed,
                             [raised |-> e.raised,
                              tools |-> IF e.raised THEN <<>> ELSE tools(config)])
         /\ missing_keys' = MissingAfter(e.keys)
    /\ UNCHANGED <<pc, nread, line, decoded, stdout, last, config, env,
                   stopCause, shutdownLogs, heap, returned, outcome>>

RegistryNext ==
    \/ UpdateConfig
    \/ ListTools

RegistrySpec == RegistryInit /\ [][RegistryNext]_vars

-----------------------------------------------------------------------------
(* Properties.  They are stated where run() is back at the top of its      *)
(* loop (pc = "idle"), with the line just processed described by last.     *)

\* The line just processed decoded to a JSON object and went through
\* handle_request.
ObjectHandled ==
    pc = "idle" /\ last.handled /\ last.request.shape = "object"

\* The id handle_request read from the message just processed.
LastId == IF last.request.hasId THEN last.n ELSE NoId

\* The lines of standard output that answer input line n.
AnswersTo(n) == {i \in DOMAIN stdout : stdout[i].for = n}

\* The message just processed is a tools/call or prompts/get whose params
\* are a JSON object.
CallWithParams(method) ==
    ObjectHandled /\ last.request.method = method
                  /\ last.request.params.shape = "dict"

\* last.out is one result envelope with the given isError flag.
OneResult(isError) ==
    /\ Len(last.out) = 1
    /\ last.out[1].kind = "result"
    /\ last.out[1].isError = isError
    /\ last.out[1].id = LastId

\* last.out is one JSON-RPC error envelope with the given code.
OneError(code) ==
    /\ Len(last.out) = 1
    /\ last.out[1].kind = "error"
    /\ last.out[1].code = code
    /\ last.out[1].id = LastId

\* C1: every decoded request that has an id is answered by exactly one line
\* of standard output carrying that id, written before the next line is
\* read, and the responses appear in the order of their requests.
C1_OneResponsePerRequest ==
    /\ (ObjectHandled /\ last.request.hasId) =>
          /\ Len(last.out) = 1
          /\ last.out[1].id = last.n
          /\ Cardinality(AnswersTo(last.n)) = 1
    /\ \A i, j \in DOMAIN stdout : i < j => stdout[i].for < stdout[j].for

\* C2: an execute_query call that reaches the database and whose SQL
\* execution fails is answered by a result envelope with isError = true.
C2_FailedQueryIsError ==
    (/\ CallWithParams("tools/call")
     /\ last.request.params.name = "execute_query"
     /\ last.request.params.arguments.shape = "dict"
     /\ last.request.params.arguments.sql.kind = "string"
     /\ LET q == execute_query(last.request.params.arguments.sql, last.d)
        IN  q.db.connects > 0 /\ ~q.raised /\ ~q.result.ok)
    => OneResult("true")

\* C3: a tools/call whose tool name is not a registered tool is answered by
\* a result envelope with isError = true, whatever its arguments are, and
\* never by a JSON-RPC error.
C3_UnknownToolIsError ==
    (CallWithParams("tools/call") /\ last.request.params.name \notin Tools)
    => OneResult("true")

UncaughtFault ==
    /\ pc = "idle"
    /\ last.handled
    /\ \/ last.request.shape # "object"
       \/ Route(last.request, LastId, config, last.d).raised

\* C5: an exception raised anywhere in handling a decoded message, of any
\* JSON shape and with any params, is turned into exactly one JSON-RPC
\* error with code -32603 carrying the id of the request.
C5_FaultIsInternalError ==
    UncaughtFault => OneError(INTERNAL_ERROR) /\ ~last.escaped

\* The line just processed is a bad request: malformed JSON, an unknown
\* method, a fault in a handler or in handle_request, or a failing query.
BadLine ==
    /\ pc = "idle"
    /\ \/ last.kind = "malformed"
       \/ UncaughtFault
       \/ ObjectHandled /\ last.request.method \notin Methods
       \/ ObjectHandled /\ last.db.connects > 0 /\ last.d # "ok"

\* C6: no bad request stops the loop.  A step that processes a line, short
\* of an interrupt, leaves run() in its loop; every line read has been
\* processed when the loop is back at its top; end-of-input is reached only
\* after every line was read.
C6_LoopContinues ==
    [][/\ (pc \in {"decoding", "handling"} /\ stopCause' = "running")
            => pc' \in {"handling", "idle"}
       /\ pc' = "idle" => last'.n = nread'
       /\ stopCause' = "eof" => remaining' = 0 /\ nread' = MaxLines]_vars

\* Line 1 was not JSON (its missing 'invalid_json' key was reported) and got
\* no response; line 2, a bad request too, was then read, handled and
\* answered, and run() is back at the top of its loop.
C6_Witness ==
    /\ BadLine
    /\ last.n = 2
    /\ nread = 2
    /\ last.handled
    /\ Len(last.out) = 1
    /\ "server_info.invalid_json" \in missing_keys["mcp"]
    /\ AnswersTo(1) = {}
    /\ AnswersTo(2) # {}

C8_NotificationUnanswered ==
    (ObjectHandled /\ ~last.request.hasId)
    => last.out = <<>> /\ AnswersTo(last.n) = {}

\* C9 as stated: a line that is not JSON produces no response and exactly
\* one line on standard error; a blank line produces no response and no call
\* of handle_request.
C9_OneStderrLine ==
    /\ (pc = "idle" /\ last.kind = "malformed") =>
          /\ last.out = <<>>
          /\ AnswersTo(last.n) = {}
          /\ ~last.handled
          /\ Len(last.logs) + last.warns = 1
    /\ (pc = "idle" /\ last.kind = "blank") =>
          /\ last.out = <<>>
          /\ AnswersTo(last.n) = {}
          /\ ~last.handled

\* C9 amended: a line that is not JSON produces no response and exactly one
\* log line ('invalid_json') on standard error, preceded by one "Missing
\* translation key" warning when the loaded strings lack that key and it was
\* not reported before; a blank line produces no response, no line on
\* standard error and no call of handle_request.
C9_OneLogLine ==
    [][(pc = "decoding" /\ pc' = "idle") =>
          /\ stdout' = stdout
          /\ last'.out = <<>>
          /\ ~last'.handled
          /\ last'.calls = <<>>
          /\ last'.db = NoDb
          /\ line = "malformed" =>
                /\ last'.logs = <<"invalid_json">>
                /\ last'.warns =
                      IF /\ ~I18nHas("server_info.invalid_json")
                         /\ "server_info.invalid_json" \notin missing_keys["mcp"]
                      THEN 1 ELSE 0
          /\ line = "blank" => last'.logs = <<>> /\ last'.warns = 0]_vars

\* A second malformed line, after the missing key was reported for the
\* first: one line on standard error.
C9_Witness ==
    /\ pc = "idle"
    /\ last.kind = "malformed"
    /\ last.n = 2
    /\ "server_info.invalid_json" \in missing_keys["mcp"]
    /\ last.logs = <<"invalid_json">>
    /\ last.warns = 0
    /\ stdout = <<>>

\* C10: a decoded message whose method is not one of the seven methods is
\* answered by one JSON-RPC error with code -32601, and no handler and no
\* database call is made for it.
C10_MethodNotFound ==
    (ObjectHandled /\ last.request.method \notin Methods) =>
        /\ OneError(METHOD_NOT_FOUND)
        /\ Cardinality(AnswersTo(last.n)) = 1
        /\ last.calls = <<>>
        /\ last.db = NoDb
        /\ ~last.escaped

C10_Witness ==
    /\ ObjectHandled
    /\ last.request.hasId
    /\ last.request.method = "bogus/method"
    /\ OneError(METHOD_NOT_FOUND)
    /\ last.calls = <<>>

\* C11: a tools/call for execute_query whose arguments carry no sql value
\* (absent, null or empty) is answered by a result envelope with
\* isError = true whose text is the 'sql_required' message, and the Database
\* Client is not called for it.
C11_SqlRequired ==
    (/\ CallWithParams("tools/call")
     /\ last.request.params.name = "execute_query"
     /\ last.request.params.arguments.shape # "nondict"
     /\ last.request.params.arguments.sql.kind = "falsy")
    => /\ OneResult("true")
       /\ Cardinality(AnswersTo(last.n)) = 1
       /\ last.db = NoDb
       /\ "tools.sql_required" \in
             handle_tools_call(LastId, last.request.params, config,
                               last.d).keys["mcp"]

C11_Witness ==
    /\ CallWithParams("tools/call")
    /\ last.request.hasId
    /\ last.request.params.name = "execute_query"
    /\ last.request.params.arguments.shape = "dict"
    /\ last.request.params.arguments.sql.kind = "falsy"
    /\ env.fdb_available
    /\ env.client_available
    /\ OneResult("true")
    /\ last.db = NoDb

\* The members of a response envelope besides "jsonrpc".
Members(envelope) ==
    {"id"} \cup (IF envelope.kind = "result" THEN {"result"} ELSE {})
           \cup (IF envelope.code # 0 THEN {"error"} ELSE {})

\* C12: every line written to standard output is a JSON-RPC response
\* envelope with an id and exactly one of result and error; the log lines and
\* warnings of a step go to standard error and add no line to standard
\* output.
C12_StdoutOnlyEnvelopes ==
    [][/\ Len(stdout') = Len(stdout)
            + (IF pc = "handling" /\ pc' = "idle" THEN Len(last'.out) ELSE 0)
       /\ SubSeq(stdout', 1, Len(stdout)) = stdout
       /\ \A i \in DOMAIN last'.out :
            /\ Members(last'.out[i]) \in {{"id", "result"}, {"id", "error"}}
            /\ last'.out[i].id \in {NoId, nread}
            /\ (pc = "handling" /\ pc' = "idle") =>
                  stdout'[Len(stdout) + i] = [for |-> nread, id |-> last'.out[i].id]]_vars

\* A step that logged and warned on standard error and wrote one envelope.
C12_Witness ==
    /\ pc = "idle"
    /\ last.handled
    /\ Len(last.logs) > 0
    /\ last.warns > 0
    /\ Len(last.out) = 1
    /\ Len(stdout) = 1

\* The message just processed is a tools/call for test_connection that was
\* answered with the JSON text of a failure result (connected = false).
ConnectionFailureAnswered ==
    /\ CallWithParams("tools/call")
    /\ last.request.params.name = "test_connection"
    /\ Len(last.out) = 1
    /\ last.out[1].kind = "result"
    /\ last.out[1].ok = "false"

\* C13: every failure result of test_connection echoes the connection
\* target (host, port, database path, user) and nothing of the password:
\* the response is the same whatever password is configured.
C13_PasswordRedacted ==
    ConnectionFailureAnswered =>
        /\ {"host", "port", "database", "user"} \subseteq last.out[1].echo
        /\ "password" \notin last.out[1].echo

\* The latest call was test_connection, called directly.
TestedConnection == outcome.op = "test_connection"

\* C14: test_connection checks the driver library, then the native client
\* library, before it attempts a connection: without the driver the category
\* is fdb_library_error whatever the client library and the failure text
\* are, with the driver but without the client library it is
\* client_library_error, and in both cases the Database Client is not
\* called.
C14_PreconditionsShortCircuit ==
    TestedConnection =>
        /\ ~env.fdb_available =>
              /\ outcome.result.type = "fdb_library_error"
              /\ outcome.result.ok = FALSE
              /\ outcome.db = NoDb
        /\ (env.fdb_available /\ ~env.client_available) =>
              /\ outcome.result.type = "client_library_error"
              /\ outcome.result.ok = FALSE
              /\ outcome.db = NoDb

C14_Witness ==
    /\ TestedConnection
    /\ ~env.fdb_available
    /\ ~env.client_available
    /\ outcome.d = "connect"
    /\ outcome.text = FailureText.Undetermined
    /\ outcome.result.type = "fdb_library_error"
    /\ outcome.db = NoDb

\* The classification rules in their priority order, applied to a
\* lower-cased failure text; the last rule matches every text.
ClassificationRules(text) ==
    << [hit |-> Contains(text, Phrase.CouldNotBeDetermined),
        category |-> "client_library_error",
        remediation |-> "FIREBIRD CLIENT ISSUE"],
       [hit |-> Contains(text, Phrase.Libtommath) \/ Contains(text, Phrase.Libtomcrypt),
        category |-> "dependency_error",
        remediation |-> "DEPENDENCY ISSUE"],
       [hit |-> Contains(text, Phrase.NetworkError) \/ Contains(text, Phrase.ConnectionRefused),
        category |-> "network_error",
        remediation |-> "NETWORK ISSUE"],
       [hit |-> \/ Contains(text, Phrase.Login)
                \/ Contains(text, Phrase.Password)
                \/ Contains(text, Phrase.Authentication),
        category |-> "authentication_error",
        remediation |-> "AUTHENTICATION ISSUE"],
       [hit |-> Contains(text, Phrase.Database) /\ Contains(text, Phrase.NotFound),
        category |-> "database_error",
        remediation |-> "DATABASE ISSUE"],
       [hit |-> TRUE, category |-> "unknown_error", remediation |-> "none"] >>

\* The first rule a lower-cased failure text matches.
FirstMatch(text) ==
    LET rules == ClassificationRules(text)
    IN  rules[CHOOSE i \in DOMAIN rules :
                  rules[i].hit /\ \A j \in 1..(i - 1) : ~rules[j].hit]

\* The latest call was test_connection, both preconditions passed and the
\* connection attempt failed.
ConnectionAttemptFailed ==
    /\ TestedConnection
    /\ env.fdb_available
    /\ env.client_available
    /\ ~outcome.result.ok

\* C15: a failed connection attempt gets the category of the first rule its
\* lower-cased failure text matches, in the order client library,
\* dependency, network, authentication, database, unknown; the message is
\* the failure text followed by the remediation of that category (nothing
\* for unknown_error).
C15_FirstMatchWins ==
    ConnectionAttemptFailed =>
        /\ outcome.result.type = FirstMatch(Lower(outcome.text)).category
        /\ outcome.message.text = outcome.text
        /\ outcome.message.appended = FirstMatch(Lower(outcome.text)).remediation

C15_Witness ==
    /\ ConnectionAttemptFailed
    /\ outcome.d = "connect"
    /\ outcome.text = FailureText.NetworkLogin
    /\ outcome.result.type = "network_error"
    /\ outcome.message.appended = "NETWORK ISSUE"

\* The latest direct call got as far as the Database Client and met a call
\* that raised: connect, execute or close in every method, fetch where the
\* method fetches, commit where it commits.
DriverFault ==
    /\ outcome.op # "none"
    /\ env.fdb_available
    /\ env.client_available
    /\ \/ outcome.d \in {"connect", "execute", "close"}
       \/ /\ outcome.d = "fetch"
          /\ outcome.op = "execute_query" =>
                /\ outcome.sql.kind = "string"
                /\ StartsWith(Upper(Strip(outcome.sql.text)), SELECT)
       \/ /\ outcome.d = "commit"
          /\ outcome.op = "execute_query"
          /\ outcome.sql.kind = "string"
          /\ ~StartsWith(Upper(Strip(outcome.sql.text)), SELECT)

\* C16: test_connection, execute_query and get_tables never raise: whatever
\* call of the Database Client fails and whatever value the sql argument
\* has, they return a result, and the result of a call that met a Database
\* Client failure has connected / success = false.
C16_NeverThrown ==
    outcome.op # "none" =>
        /\ ~outcome.raised
        /\ DriverFault => ~outcome.result.ok

\* A returned analysis as its caller reads it on heap h: the lists by value.
ValueOn(h, r) ==
    [k \in DOMAIN r.dict |->
        IF k \in {"suggestions", "firebird_features", "performance_tips"}
        THEN h[r.dict[k]]
        ELSE r.dict[k]]

\* The text begins with the word, whatever the case of its letters, after
\* leading whitespace.
BeginsWith(sql, word) ==
    \E n \in 0..Len(sql) :
        /\ \A k \in 1..n : sql[k] \in Whitespace
        /\ n + Len(word) <= Len(sql)
        /\ Upper(SubSeq(sql, n + 1, n + Len(word))) = word

\* The characters identifiers and keywords are made of.
WordChars ==
    {LowerLetters[i] : i \in DOMAIN LowerLetters}
    \cup {UpperLetters[i] : i \in DOMAIN UpperLetters}
    \cup {"0", "1", "2", "3", "4", "5", "6", "7", "8", "9", "_", "$"}

\* The word occurs in the text as a token: not as a part of a longer word.
HasToken(sql, word) ==
    \E i \in 1..Len(sql) :
        /\ MatchAt(Upper(sql), i, word)
        /\ i > 1 => sql[i - 1] \notin WordChars
        /\ i + Len(word) <= Len(sql) => sql[i + Len(word)] \notin WordChars

\* C17: for every text that begins with DELETE and has no WHERE token,
\* analyze returns complexity = dangerous and a suggestion list that is the
\* warning followed by the two baseline suggestions in their order.
C17_DeleteWithoutWhere ==
    \A i \in DOMAIN returned :
        (BeginsWith(returned[i].sql, Keyword.DELETE) /\ ~HasToken(returned[i].sql, Keyword.WHERE))
        => /\ ValueOn(heap, returned[i]).complexity = "dangerous"
           /\ ValueOn(heap, returned[i]).suggestions
                  = <<DeleteWarning>> \o DeleteBaseline

\* C18: for every text that begins with DROP, in any case and after leading
\* whitespace, analyze returns type = drop, category = ddl and
\* complexity = dangerous.
C18_DropIsDangerous ==
    \A i \in DOMAIN returned :
        BeginsWith(returned[i].sql, Keyword.DROP)
        => /\ ValueOn(heap, returned[i]).type = "drop"
           /\ ValueOn(heap, returned[i]).category = "ddl"
           /\ ValueOn(heap, returned[i]).complexity = "dangerous"

C18_Witness ==
    \E i \in DOMAIN returned :
        /\ returned[i].sql = AnalyzedText.DropTable
        /\ BeginsWith(returned[i].sql, Keyword.DROP)
        /\ ValueOn(heap, returned[i]).type = "drop"
        /\ ValueOn(heap, returned[i]).complexity = "dangerous"

\* The list objects a returned analysis refers to.
ListsOf(r) ==
    {r.dict.suggestions, r.dict.firebird_features, r.dict.performance_tips}

\* C19: analyze is idempotent and free of side effects: a later call, of
\* analyze or of get_optimization_suggestions and on whatever text, changes
\* no analysis returned before; two analyses of the same text are equal in
\* every entry, whatever was analysed in between; and no two returned
\* analyses share a list object.
C19_AnalyzeIdempotent ==
    [][ /\ \A i \in DOMAIN returned :
              /\ i \in DOMAIN returned'
              /\ returned'[i] = returned[i]
              /\ ValueOn(heap', returned'[i]) = ValueOn(heap, returned[i])
        /\ \A i, j \in DOMAIN returned' :
              returned'[i].sql = returned'[j].sql
              => ValueOn(heap', returned'[i]) = ValueOn(heap', returned'[j])
        /\ \A i, j \in DOMAIN returned' :
              i # j => ListsOf(returned'[i]) \cap ListsOf(returned'[j]) = {}
      ]_vars

C19_Witness ==
    /\ Len(returned) = 3
    /\ returned[1].sql = AnalyzedText.DeleteAll
    /\ returned[2].sql = AnalyzedText.DeleteWhere
    /\ returned[3].sql = AnalyzedText.DeleteAll
    /\ ValueOn(heap, returned[1]) = ValueOn(heap, returned[3])
    /\ ValueOn(heap, returned[1]).suggestions = <<DeleteWarning>> \o DeleteBaseline
    /\ ValueOn(heap, returned[2]).suggestions = DeleteBaseline
    /\ returned[1].dict.suggestions # returned[3].dict.suggestions

\* The text after its leading whitespace and SQL comments ('--' to the end
\* of the line, '/*' to the next '*/').
RECURSIVE Uncommented(_)
Uncommented(sql) ==
    IF sql = <<>> THEN sql
    ELSE IF sql[1] \in Whitespace THEN Uncommented(Tail(sql))
    ELSE IF MatchAt(sql, 1, <<"-", "-">>)
    THEN IF \E i \in 3..Len(sql) : sql[i] = "\n"
         THEN Uncommented(SubSeq(sql,
                                 1 + CHOOSE i \in 3..Len(sql) :
                                         /\ sql[i] = "\n"
                                         /\ \A j \in 3..(i - 1) : sql[j] # "\n",
                                 Len(sql)))
         ELSE <<>>
    ELSE IF MatchAt(sql, 1, <<"/", "*">>)
    THEN IF \E i \in 3..Len(sql) : MatchAt(sql, i, <<"*", "/">>)
         THEN Uncommented(SubSeq(sql,
                                 2 + CHOOSE i \in 3..Len(sql) :
                                         /\ MatchAt(sql, i, <<"*", "/">>)
                                         /\ \A j \in 3..(i - 1) :
                                                ~MatchAt(sql, j, <<"*", "/">>),
                                 Len(sql)))
         ELSE <<>>
    ELSE sql

\* C20: a text whose first keyword after leading whitespace and comments is
\* SELECT is classified type = select, category = query.
C20_CommentsSkipped ==
    \A i \in DOMAIN returned :
        BeginsWith(Uncommented(returned[i].sql), SELECT)
        => /\ ValueOn(heap, returned[i]).type = "select"
           /\ ValueOn(heap, returned[i]).category = "query"

\* The tools that may get guidance.
GuidedTools == {"execute_query", "test_connection", "list_tables"}

\* The message just processed is a tools/call whose params and arguments
\* are usable and that was answered by one result envelope.
ToolCallAnswered ==
    /\ CallWithParams("tools/call")
    /\ last.request.params.arguments.shape # "nondict"
    /\ Len(last.out) = 1
    /\ last.out[1].kind = "result"

\* C21: apply_to_response prepends guidance only when the config is
\* enabled, auto_apply is set, the per-call disable flag is not set and the
\* tool is execute_query, test_connection or list_tables; in every other
\* case, server_status included, the content is returned unchanged.  This
\* holds for the method on every tool name and flag, and for the text of
\* every tools/call response.
C21_GuidanceGate ==
    /\ \A tool \in ToolNames, disabled \in BOOLEAN :
          apply_to_response(tool, disabled, config).guided
          => /\ ~disabled
             /\ config.enabled
             /\ config.auto_apply
             /\ tool \in GuidedTools
    /\ (ToolCallAnswered /\ last.out[1].guided)
       => /\ ~last.request.params.arguments.disable
          /\ config.enabled
          /\ config.auto_apply
          /\ last.request.params.name \in GuidedTools

C21_Witness ==
    /\ ToolCallAnswered
    /\ last.request.params.name = "test_connection"
    /\ last.out[1].guided
    /\ config.enabled
    /\ config.auto_apply
    /\ ~apply_to_response("server_status", FALSE, config).guided
    /\ ~apply_to_response("test_connection", TRUE, config).guided

\* C22: processing a tools/call request leaves the prompt manager's config
\* as it was before the request, whatever the arguments (expert_operation
\* included) and whether the call is answered with a result, with an error
\* result or with a JSON-RPC error.
C22_ConfigNotWrittenBack ==
    [][ (pc = "handling" /\ decoded.shape = "object"
         /\ decoded.method = "tools/call")
        => config' = config ]_vars

C22_Witness ==
    /\ ToolCallAnswered
    /\ last.request.params.name = "execute_query"
    /\ last.request.params.arguments.shape = "dict"
    /\ last.request.params.arguments.op = "select"
    /\ ~last.request.params.arguments.disable
    /\ last.out[1].isError = "false"
    /\ last.out[1].guided
    /\ config.operation_type = "query"

\* The message just processed is an execute_query call answered with the
\* query results, in a process started without prompt variables and with
\* its language file loaded.
DefaultQueryAnswered ==
    /\ ToolCallAnswered
    /\ last.request.params.name = "execute_query"
    /\ last.out[1].isError = "false"
    /\ config = DEFAULT_PROMPT_CONFIG
    /\ env.strings = AllKeys

\* C23: with the default configuration the text of an execute_query
\* response starts with the guidance block unless the call carries
\* disable_expert_mode = true, in which case the block is absent.
C23_DefaultGuidance ==
    DefaultQueryAnswered
    => (last.out[1].guided <=> ~last.request.params.arguments.disable)

\* C24: every tools/list response carries the same four descriptors: none
\* fails, each lists test_connection, execute_query, list_tables and
\* server_status, and any two responses agree in every name, description
\* and input schema, whatever config updates were made in between.
C24_RegistryImmutable ==
    \A i, j \in DOMAIN listed :
        /\ ~listed[i].raised
        /\ DOMAIN listed[i].tools = Tools
        /\ listed[i].tools = listed[j].tools

\* C25: every prompts/list request that has an id is answered by exactly one
\* result envelope, never a JSON-RPC error, whose payload is the prompts
\* list (which names firebird_expert, firebird_performance and
\* firebird_architecture, the names prompts/get accepts).
C25_PromptsListed ==
    (ObjectHandled /\ last.request.method = "prompts/list" /\ last.request.hasId)
    => /\ Len(last.out) = 1
       /\ last.out[1].kind = "result"
       /\ last.out[1].tag = "prompts"
       /\ last.out[1].id = LastId

\* execute_query was called with a string and returned a result.
QueryReturned ==
    /\ outcome.op = "execute_query"
    /\ outcome.sql.kind = "string"
    /\ ~outcome.raised

\* C26: every result execute_query returns for an SQL string, on success, on
\* an execution failure and on a precondition failure alike, carries the
\* classification record of that string: the type, complexity, category and
\* suggestions analyze gives for it.
C26_EveryResultAnnotated ==
    QueryReturned =>
        /\ outcome.result.annotated
        /\ outcome.analysis = analyze(outcome.sql.text)
        /\ {"type", "complexity", "category", "suggestions"}
              \subseteq DOMAIN outcome.analysis

\* C29: no connection is left open: when test_connection, execute_query or
\* get_tables returns, on the paths where execute, fetch or commit raised
\* after a successful connect too, every connection it opened was closed.
C29_ConnectionsClosed ==
    (outcome.op # "none" /\ ~outcome.raised) =>
        outcome.db.closed = outcome.db.opened

\* The statement of the latest execute_query call starts with SELECT.
IsSelect == StartsWith(Upper(Strip(outcome.sql.text)), SELECT)

\* C30: execute_query commits exactly once when a statement that does not
\* start with SELECT executed without error (and the commit itself did not
\* fail), never for a statement that starts with SELECT and never when the
\* connect or the execution failed; once connected, the statement is sent to
\* the Database Client exactly once whatever its classification, complexity
\* dangerous included.
C30_CommitOncePerWrite ==
    (QueryReturned /\ outcome.db.connects > 0) =>
        /\ (~IsSelect /\ outcome.d \notin {"connect", "execute", "commit"})
              => outcome.db.commits = 1
        /\ IsSelect => outcome.db.commits = 0
        /\ outcome.d \in {"connect", "execute"} => outcome.db.commits = 0
        /\ outcome.db.commits <= 1
        /\ outcome.d # "connect" => outcome.db.executes = 1

\* A DELETE without WHERE, classified dangerous, was sent and committed
\* once; a SELECT was sent and not committed.
C30_Witness ==
    /\ QueryReturned
    /\ outcome.d = "ok"
    /\ outcome.sql.text = SqlDelete
    /\ outcome.db.connects = 1
    /\ outcome.analysis.complexity = "dangerous"
    /\ outcome.result.ok
    /\ outcome.db.executes = 1
    /\ outcome.db.commits = 1
    /\ LET q == execute_query([kind |-> "string", text |-> SqlSelect], "ok")
       IN  q.result.ok /\ q.db.executes = 1 /\ q.db.commits = 0

OVER == <<"O", "V", "E", "R">>

\* The text holds one of the words that make a SELECT complex.
ComplexMarker(sql) ==
    \/ \E w \in {Keyword.JOIN, Keyword.UNION_kw, Keyword.WITH_kw, Keyword.WINDOW,
                  OVER, Keyword.PARTITION, Keyword.HAVING} : Contains(sql, w)
    \/ ContainsSpaced(sql, Keyword.GROUP, Keyword.BY_kw)

\* The text holds an aggregation marker.
AggregationMarker(sql) ==
    \/ \E w \in {Keyword.COUNT, Keyword.SUM, Keyword.AVG, Keyword.MIN,
                  Keyword.MAX} : Contains(sql, w)
    \/ ContainsSpaced(sql, Keyword.GROUP, Keyword.BY_kw)

\* The items of a list.
Items(list) == {list[k] : k \in DOMAIN list}

\* C27: for every text that begins with SELECT, analyze returns complexity
\* complex when the text holds JOIN, UNION, WITH, WINDOW, OVER, PARTITION,
\* GROUP BY or HAVING, else intermediate when it holds COUNT, SUM, AVG, MIN,
\* MAX or GROUP BY, else simple; its features name "Window Functions"
\* whenever WINDOW or OVER is present and the common table expression
\* whenever WITH is present.
C27_SelectComplexity ==
    \A i \in DOMAIN returned :
        BeginsWith(returned[i].sql, SELECT) =>
            LET sql == Upper(returned[i].sql)
                v == ValueOn(heap, returned[i])
            IN  /\ v.type = "select"
                /\ v.complexity = IF ComplexMarker(sql) THEN "complex"
                                  ELSE IF AggregationMarker(sql) THEN "intermediate"
                                  ELSE "simple"
                /\ (Contains(sql, Keyword.WINDOW) \/ Contains(sql, OVER))
                      => "Window Functions" \in Items(v.firebird_features)
                /\ Contains(sql, Keyword.WITH_kw)
                      => "Common Table Expression (CTE)" \in Items(v.firebird_features)

\* The text holds a subquery: a parenthesis that opens on SELECT.
HasSubquery(sql) ==
    \E i \in 1..Len(sql) :
        /\ sql[i] = "("
        /\ \E j \in (i + 1)..Len(sql) :
              /\ \A k \in (i + 1)..(j - 1) : sql[k] \in Whitespace
              /\ MatchAt(sql, j, SELECT)

\* The suggestions that tell to check the WHERE clause against the indexes.
WhereIndexSuggestions ==
    {"Verify WHERE clause uses indexed columns",
     "Ensure WHERE clause is selective and uses indexes"}

\* C28: for every text that begins with UPDATE, analyze returns category
\* modification and a suggestion to check that the WHERE clause uses
\* indexes; complexity is complex when the text holds a join, a subquery or
\* CASE WHEN, and simple otherwise.
C28_UpdateComplexity ==
    \A i \in DOMAIN returned :
        BeginsWith(returned[i].sql, Keyword.UPDATE) =>
            LET sql == Upper(returned[i].sql)
                v == ValueOn(heap, returned[i])
            IN  /\ v.type = "update"
                /\ v.category = "modification"
                /\ Items(v.suggestions) \cap WhereIndexSuggestions # {}
                /\ v.complexity =
                      IF \/ Contains(sql, Keyword.JOIN)
                         \/ HasSubquery(sql)
                         \/ ContainsSpaced(sql, Keyword.CASE_kw, Keyword.WHEN)
                      THEN "complex" ELSE "simple"

====
